---- MODULE Spec2Model ----
(***************************************************************************)
(* Plugin/tool runtime of mcp-cli: the plugin manager, the MCP tools/list  *)
(* and tools/call handlers, the local `call` verb, the tool-call logger,   *)
(* the command registry, the HTTP/SSE transport of the MCP sessions, the   *)
(* MCP client of the proxy plugin and the command actions of the process.  *)
(*                                                                         *)
(* The specifications of the module share its variables:                   *)
(*   Spec        the plugin manager: load, unload, enable, disable plugins *)
(*   SpecCall    the tool dispatchers and the logger over a loaded manager *)
(*   SpecSession tool calls of several callers, with the caller recorded   *)
(*   SpecToggle  enablePlugin, disablePlugin, enableTool and disableTool   *)
(*   SpecSse     the requests of the HTTP/SSE transport                    *)
(*   SpecServe   the HTTP/SSE transport stopped and started again          *)
(*   SpecNotify  MCP sessions over SSE while the switches are operated     *)
(*   SpecLogger  the tool-call logger: history, stats, subscribers         *)
(*   SpecJournal the tool-call logger: its write queue and its files       *)
(*   SpecProxy   the MCP client of the proxy plugin and its child          *)
(*   SpecShutdown the cleanup of the interactive and serve commands        *)
(*   SpecStdio   `serve --mode stdio`: loading, and the standard streams   *)
(*   SpecReg     the command registry                                      *)
(***************************************************************************)
EXTENDS Integers, Sequences, FiniteSets, TLC

(***************************************************************************)
(* Bounds of the model.                                                    *)
(***************************************************************************)
MaxLoads == 2      \* loadPlugin calls in one behaviour
MaxCalls == 1      \* tool calls (tools/call and `call`) in one behaviour
MaxToggles == 1    \* enablePlugin/disablePlugin (and, with the dispatchers, enableTool/disableTool)
                   \* calls in one behaviour
MaxSwitches == 2   \* the same, where only the runtime switches are explored
MaxToolOps == 2    \* enableTool/disableTool calls, where only the runtime switches are explored
MaxUnloads == 1    \* unloadPlugin calls in one behaviour
MaxSessions == 2   \* GET /sse connections in one behaviour
MaxPosts == 1      \* POST /message requests in one behaviour
MaxSessionCalls == 2  \* tool calls in one behaviour, where calls are told apart by caller

(***************************************************************************)
(* JavaScript Map: insertion-ordered, unique keys.  A map is a sequence of *)
(* [k, v] records; set() on a present key keeps the position.              *)
(***************************************************************************)
MapHas(m, key) == \E i \in 1..Len(m) : m[i].k = key

MapGet(m, key) == m[CHOOSE i \in 1..Len(m) : m[i].k = key].v

MapSet(m, key, val) ==
    IF MapHas(m, key)
    THEN [i \in 1..Len(m) |-> IF m[i].k = key THEN [k |-> key, v |-> val] ELSE m[i]]
    ELSE Append(m, [k |-> key, v |-> val])

MapDelete(m, key) == SelectSeq(m, LAMBDA e : e.k # key)

MapKeys(m) == [i \in 1..Len(m) |-> m[i].k]

Range(s) == {s[i] : i \in 1..Len(s)}

RECURSIVE Join(_, _)
\* Array.prototype.join
Join(s, sep) ==
    IF Len(s) = 0 THEN ""
    ELSE IF Len(s) = 1 THEN s[1]
    ELSE s[1] \o sep \o Join(Tail(s), sep)

(***************************************************************************)
(* The environment of the plugin manager: registration names (config       *)
(* keys), packages, the tools a package's plugin exports, the manager's    *)
(* configuration.                                                          *)
(***************************************************************************)
RegNames == {"fs", "fs_x"}

Packages == {"pkgA", "pkgB", "pkgBad", "pkgProxy"}

\* plugin.getMcpTools?.() ?? [] / the 'tool' entries of plugin.getExports()
PluginTools(pkg) ==
    CASE pkg = "pkgA" -> <<"x_read", "danger">>
      [] pkg = "pkgB" -> <<"read">>
      [] OTHER -> <<>>

\* module.default of a package: a Plugin object, a factory function returning
\* Plugins (PluginFactory), or an object without a manifest
DefaultExport(pkg) ==
    CASE pkg = "pkgProxy" -> "factory"
      [] pkg = "pkgBad" -> "no manifest"
      [] OTHER -> "plugin"

\* validatePlugin(module.default): it throws unless the value has a manifest
\* with name, version and description and the methods of a Plugin; a function
\* has no manifest
ValidPlugin(pkg) == DefaultExport(pkg) = "plugin"

\* plugin.onEnable / plugin.onDisable are optional
HasHooks(pkg) == pkg = "pkgB"

\* this.config.disabledTools?.[pluginName] ?? []
ConfigDisabledTools(name) == IF name = "fs" THEN {"danger"} ELSE {}

NoError == "<none>"

VARIABLES
    plugins,      \* PluginManager.plugins : Map name -> PluginInfo; info.plugin is the
                  \* Plugin object, module.default of its package; info.iid names the load
    loads,        \* loadPlugin calls: id -> position and result
    loadsUsed,    \* number of loadPlugin calls started
    unloads,      \* unloadPlugin calls awaiting destroy(): name -> number of calls
    unloadsUsed,  \* number of unloadPlugin calls started
    hooks,        \* enablePlugin/disablePlugin calls awaiting the hook
    initLog,      \* calls of plugin.init, in order
    emitted,      \* events emitted by the latest manager step
    toggles,      \* number of enable/disable operations performed
    calls,        \* tool calls: id -> position, request and response
    history,      \* ToolCallLogger.history
    stats,        \* ToolCallLogger.stats.totals
    invocations,  \* calls of tool handlers, in order
    listResp,     \* the latest tools/list response
    thrown,       \* the error the latest unload/enable/disable step threw, or NoError
    destroyLog,   \* calls of plugin.destroy, in order
    toolOps       \* number of enableTool/disableTool calls made

pmVars == <<plugins, loads, loadsUsed, unloads, unloadsUsed, hooks, initLog, emitted,
            toggles, calls, history, stats, invocations, listResp, thrown, destroyLog,
            toolOps>>

(***************************************************************************)
(* Tool-call logger: src/unnamed/part_011                                  *)
(***************************************************************************)
VARIABLES
    maxSize,           \* ToolCallLogger.maxSize
    subscribers,       \* ToolCallLogger.subscribers, in insertion order
    delivered,         \* subscriber callbacks run by the latest log(), in order
    logThrew,          \* whether the latest log() threw
    logCalls,            \* number of log() calls made
    counted,           \* number of log() calls made since the stats were last empty
    initPhase,         \* position of initialize(): "mkdir", "load" or "done"
    initialized,       \* ToolCallLogger.initialized
    saveStatsTimeout,  \* whether the debounce timer is armed
    writeQueue,        \* tasks chained on ToolCallLogger.writeQueue, not yet started
    writing,           \* file writes in progress
    logsDir,           \* whether the logs directory exists
    journal,           \* lines of the daily log file
    statsFile,         \* content of stats.json, or NoFile
    lost,              \* lines whose appendFile failed
    resets             \* number of resetStats() calls made

logVars == <<maxSize, subscribers, delivered, logThrew, logCalls, counted, initPhase,
             initialized, saveStatsTimeout, writeQueue, writing, logsDir, journal,
             statsFile, lost, resets>>

DEFAULT_MAX_SIZE == 1000

Subscribers == {"ui", "bad"}

\* the subscriber callbacks that throw
Throws(s) == s = "bad"

NoFile == [calls |-> -1, success |-> -1, errors |-> -1]

\* ToolCallLogger.createEmptyStats: the global totals
createEmptyStats == [calls |-> 0, success |-> 0, errors |-> 0]

\* ToolCallLogger.loadStats: the parsed file, or empty stats when reading fails
loadStats == IF statsFile = NoFile THEN createEmptyStats ELSE statsFile

\* ToolCallLogger.log: push, then shift the oldest one at a time (kept from the start)
logHistoryKeepsOldest(h, entry) ==
    LET pushed == Append(h, entry) IN
    IF Len(pushed) > maxSize THEN SubSeq(pushed, 1, maxSize) ELSE pushed

\* ToolCallLogger.log: push, drop the oldest while over capacity
logHistory(h, entry) ==
    LET pushed == Append(h, entry) IN
    IF Len(pushed) > maxSize
    THEN SubSeq(pushed, Len(pushed) - maxSize + 1, Len(pushed))
    ELSE pushed

\* ToolCallLogger.updateStats: the global totals
updateStats(st, entry) ==
    [calls |-> st.calls + 1,
     success |-> IF entry.success THEN st.success + 1 ELSE st.success,
     errors |-> IF entry.success THEN st.errors ELSE st.errors + 1]

\* ToolCallLogger.appendToLog: the JSON line of an entry; its timestamp is the call's number
Line(entry) ==
    "{\"ts\":" \o ToString(entry.call) \o ",\"client\":\"" \o entry.clientId
    \o "\",\"tool\":\"" \o entry.tool \o "\",\"ok\":"
    \o (IF entry.success THEN "true" ELSE "false") \o "}\n"

AppendTask(entry) == [kind |-> "append", line |-> Line(entry)]

StatsTask == [kind |-> "stats", line |-> ""]

\* a write in progress: started by the queue or directly, with the bytes it writes
Write(task, via, totals) ==
    [kind |-> task.kind, line |-> task.line, via |-> via, totals |-> totals]

\* the subscriber loop of log() without its try/catch: stops at the first throw
notifyUncaught(subs, entry) ==
    LET bad == {i \in 1..Len(subs) : Throws(subs[i])} IN
    IF bad = {} THEN [ran |-> subs, threw |-> FALSE]
    ELSE [ran |-> SubSeq(subs, 1, CHOOSE i \in bad : \A j \in bad : i <= j),
          threw |-> TRUE]

\* the subscriber loop of log(): every callback runs in insertion order, what it
\* throws is caught
notify(subs, entry) ==
    [ran |-> [i \in 1..Len(subs) |-> subs[i]], threw |-> FALSE]

\* ToolCallLogger.appendToLog without the chain: the append starts at once
appendToLogUnchained(entry) ==
    /\ writing' = Append(writing, Write(AppendTask(entry), "queue", createEmptyStats))
    /\ UNCHANGED writeQueue

\* ToolCallLogger.appendToLog: chain the append on the write queue
appendToLog(entry) ==
    /\ writeQueue' = Append(writeQueue, AppendTask(entry))
    /\ UNCHANGED writing

\* ToolCallLogger.log
loggerLog(entry) ==
    LET n == notify(subscribers, entry) IN
    /\ history' = logHistory(history, entry)
    /\ stats' = updateStats(stats, entry)
    /\ saveStatsTimeout' = TRUE
    /\ appendToLog(entry)
    /\ delivered' = n.ran
    /\ logThrew' = n.threw
    /\ logCalls' = logCalls + 1
    /\ counted' = counted + 1
    /\ UNCHANGED <<maxSize, subscribers, initPhase, initialized, logsDir, journal,
                   statsFile, lost, resets>>

\* the singleton toolCallLogger once initialize() has completed on a fresh state directory
InitLog ==
    /\ maxSize = DEFAULT_MAX_SIZE
    /\ subscribers = <<>>
    /\ delivered = <<>>
    /\ logThrew = FALSE
    /\ logCalls = 0
    /\ counted = 0
    /\ initPhase = "done"
    /\ initialized = TRUE
    /\ saveStatsTimeout = FALSE
    /\ writeQueue = <<>>
    /\ writing = <<>>
    /\ logsDir = TRUE
    /\ journal = <<>>
    /\ statsFile = NoFile
    /\ lost = {}
    /\ resets = 0

(***************************************************************************)
(* Plugin manager: src/unnamed/part_013                                    *)
(***************************************************************************)
NoResult == [settled |-> FALSE, ok |-> FALSE, message |-> ""]

Resolved == [settled |-> TRUE, ok |-> TRUE, message |-> ""]

Rejected(msg) == [settled |-> TRUE, ok |-> FALSE, message |-> msg]

FreeLoad == [st |-> "free", name |-> "", pkg |-> "", result |-> NoResult]

\* loadPlugin's catch block: the error every failure is wrapped in
LoadFailure(name, pkg, msg) ==
    Rejected("Failed to load plugin " \o name \o " from " \o pkg \o ": " \o msg)

\* loadPlugin without its duplicate check
isDuplicateNever(ps, name) == FALSE

\* loadPlugin: if (this.plugins.has(pluginName)) throw
isDuplicate(ps, name) == MapHas(ps, name)

\* loadPlugin is called; it awaits the dynamic import
loadPlugin(name, pkg) ==
    /\ loadsUsed < MaxLoads
    /\ loadsUsed' = loadsUsed + 1
    /\ loads' = [loads EXCEPT ![loadsUsed + 1] =
                    [st |-> "import", name |-> name, pkg |-> pkg, result |-> NoResult]]
    /\ emitted' = <<>>
    /\ UNCHANGED <<plugins, unloads, unloadsUsed, hooks, initLog, toggles,
                   calls, history, stats, logVars, invocations, listResp, destroyLog, toolOps>>
    /\ thrown' = NoError

\* the import resolved: validate, check for a duplicate, create the context, call init
loadPluginImported(id) ==
    /\ loads[id].st = "import"
    /\ LET l == loads[id] IN
        IF ~ValidPlugin(l.pkg)
        THEN /\ loads' = [loads EXCEPT ![id].st = "done", ![id].result =
                    LoadFailure(l.name, l.pkg, "Plugin from " \o l.pkg \o " missing manifest")]
             /\ UNCHANGED initLog
        ELSE IF isDuplicate(plugins, l.name)
        THEN /\ loads' = [loads EXCEPT ![id].st = "done", ![id].result =
                    LoadFailure(l.name, l.pkg, "Plugin already loaded: " \o l.name)]
             /\ UNCHANGED initLog
        ELSE /\ loads' = [loads EXCEPT ![id].st = "init"]
             /\ initLog' = Append(initLog, [plugin |-> l.pkg, ctx |-> l.name, load |-> id])
    /\ emitted' = <<>>
    /\ UNCHANGED <<plugins, loadsUsed, unloads, unloadsUsed, hooks, toggles,
                   calls, history, stats, logVars, invocations, listResp, destroyLog, toolOps>>
    /\ thrown' = NoError

\* loadPlugin storing the instance before it awaits init
loadPluginInitPartial(id, initOk) ==
    /\ loads[id].st = "init"
    /\ LET l == loads[id] IN
        /\ plugins' = MapSet(plugins, l.name,
                [plugin |-> l.pkg, enabled |-> TRUE,
                 disabledTools |-> ConfigDisabledTools(l.name), iid |-> id])
        /\ IF initOk
           THEN /\ emitted' = <<[type |-> "pluginLoaded", name |-> l.name]>>
                /\ loads' = [loads EXCEPT ![id].st = "done", ![id].result = Resolved]
           ELSE /\ loads' = [loads EXCEPT ![id].st = "done", ![id].result =
                        LoadFailure(l.name, l.pkg, "init failed")]
                /\ emitted' = <<>>
    /\ UNCHANGED <<loadsUsed, unloads, unloadsUsed, hooks, initLog, toggles,
                   calls, history, stats, logVars, invocations, listResp, destroyLog, toolOps>>
    /\ thrown' = NoError

\* plugin.init settled: store the instance and emit pluginLoaded, or reject
loadPluginInit(id, initOk) ==
    /\ loads[id].st = "init"
    /\ LET l == loads[id] IN
        IF initOk
        THEN /\ plugins' = MapSet(plugins, l.name,
                    [plugin |-> l.pkg, enabled |-> TRUE,
                     disabledTools |-> ConfigDisabledTools(l.name), iid |-> id])
             /\ emitted' = <<[type |-> "pluginLoaded", name |-> l.name]>>
             /\ loads' = [loads EXCEPT ![id].st = "done", ![id].result = Resolved]
        ELSE /\ loads' = [loads EXCEPT ![id].st = "done", ![id].result =
                    LoadFailure(l.name, l.pkg, "init failed")]
             /\ emitted' = <<>>
             /\ UNCHANGED plugins
    /\ UNCHANGED <<loadsUsed, unloads, unloadsUsed, hooks, initLog, toggles,
                   calls, history, stats, logVars, invocations, listResp, destroyLog, toolOps>>
    /\ thrown' = NoError

\* unloadPlugin is called: not found throws, else it awaits plugin.destroy()
unloadPlugin(name) ==
    /\ unloadsUsed < MaxUnloads
    /\ unloadsUsed' = unloadsUsed + 1
    /\ IF MapHas(plugins, name)
       THEN /\ unloads' = [unloads EXCEPT ![name] = @ + 1]
            /\ destroyLog' = Append(destroyLog, [plugin |-> MapGet(plugins, name).plugin,
                                                 iid |-> MapGet(plugins, name).iid])
            /\ thrown' = NoError
       ELSE /\ thrown' = "Plugin not found: " \o name
            /\ UNCHANGED <<unloads, destroyLog>>
    /\ emitted' = <<>>
    /\ UNCHANGED <<plugins, loads, loadsUsed, hooks, initLog, toggles,
                   calls, history, stats, logVars, invocations, listResp, toolOps>>

\* unloadPlugin emitting pluginUnloaded whether destroy() resolved or not
unloadPluginDestroyedEmits(name, destroyOk) ==
    /\ unloads[name] > 0
    /\ unloads' = [unloads EXCEPT ![name] = @ - 1]
    /\ emitted' = <<[type |-> "pluginUnloaded", name |-> name]>>
    /\ IF destroyOk
       THEN /\ plugins' = MapDelete(plugins, name)
            /\ thrown' = NoError
       ELSE /\ thrown' = "destroy failed"
            /\ UNCHANGED plugins
    /\ UNCHANGED <<loads, loadsUsed, unloadsUsed, hooks, initLog, toggles,
                   calls, history, stats, logVars, invocations, listResp, destroyLog, toolOps>>

\* plugin.destroy() settled: delete the name and emit pluginUnloaded, or reject
unloadPluginDestroyed(name, destroyOk) ==
    /\ unloads[name] > 0
    /\ unloads' = [unloads EXCEPT ![name] = @ - 1]
    /\ IF destroyOk
       THEN /\ plugins' = MapDelete(plugins, name)
            /\ emitted' = <<[type |-> "pluginUnloaded", name |-> name]>>
            /\ thrown' = NoError
       ELSE /\ emitted' = <<>>
            /\ thrown' = "destroy failed"
            /\ UNCHANGED plugins
    /\ UNCHANGED <<loads, loadsUsed, unloadsUsed, hooks, initLog, toggles,
                   calls, history, stats, logVars, invocations, listResp, destroyLog, toolOps>>

\* info.enabled = value, on the PluginInfo object the call fetched at its start
SetEnabled(ps, name, iid, value) ==
    IF MapHas(ps, name) /\ MapGet(ps, name).iid = iid
    THEN MapSet(ps, name, [MapGet(ps, name) EXCEPT !.enabled = value])
    ELSE ps

\* enablePlugin / disablePlugin up to the await of the optional hook;
\* without a hook the call runs to its end
togglePlugin(name, value) ==
    /\ toggles' = toggles + 1
    /\ IF ~MapHas(plugins, name) \/ MapGet(plugins, name).enabled = value
       THEN /\ emitted' = <<>>
            /\ UNCHANGED <<plugins, hooks>>
       ELSE LET info == MapGet(plugins, name) IN
            IF HasHooks(info.plugin)
            THEN /\ hooks' = hooks \cup {[name |-> name, iid |-> info.iid, value |-> value,
                                            call |-> toggles + 1]}
                 /\ emitted' = <<>>
                 /\ UNCHANGED plugins
            ELSE /\ plugins' = SetEnabled(plugins, name, info.iid, value)
                 /\ emitted' = <<[type |-> IF value THEN "pluginEnabled" ELSE "pluginDisabled",
                                  name |-> name]>>
                 /\ UNCHANGED hooks
    /\ thrown' = IF MapHas(plugins, name) THEN NoError ELSE "Plugin not found: " \o name
    /\ UNCHANGED <<loads, loadsUsed, unloads, unloadsUsed, initLog,
                   calls, history, stats, logVars, invocations, listResp, destroyLog, toolOps>>

enablePlugin(name) == togglePlugin(name, TRUE)

disablePlugin(name) == togglePlugin(name, FALSE)

\* onEnable / onDisable settled: set the flag and emit, or reject
pluginHookSettled(h, hookOk) ==
    /\ h \in hooks
    /\ hooks' = hooks \ {h}
    /\ IF hookOk
       THEN /\ plugins' = SetEnabled(plugins, h.name, h.iid, h.value)
            /\ emitted' = <<[type |-> IF h.value THEN "pluginEnabled" ELSE "pluginDisabled",
                             name |-> h.name]>>
            /\ thrown' = NoError
       ELSE /\ emitted' = <<>>
            /\ thrown' = "hook failed"
            /\ UNCHANGED plugins
    /\ UNCHANGED <<loads, loadsUsed, unloads, unloadsUsed, initLog, toggles,
                   calls, history, stats, logVars, invocations, listResp, destroyLog, toolOps>>

\* enableTool: permissive removal from the mask
enableTool(name, tool) ==
    /\ toolOps' = toolOps + 1
    /\ IF ~MapHas(plugins, name)
       THEN /\ emitted' = <<>>
            /\ thrown' = "Plugin not found: " \o name
            /\ UNCHANGED plugins
       ELSE /\ plugins' = MapSet(plugins, name,
                    [MapGet(plugins, name) EXCEPT !.disabledTools = @ \ {tool}])
            /\ emitted' = <<[type |-> "stateChange", name |-> name]>>
            /\ thrown' = NoError
    /\ UNCHANGED <<loads, loadsUsed, unloads, unloadsUsed, hooks, initLog, toggles,
                   calls, history, stats, logVars, invocations, listResp, destroyLog>>

\* disableTool that verifies the tool and emits, but leaves the set as it is
disableToolKeepsSet(name, tool) ==
    /\ toolOps' = toolOps + 1
    /\ IF ~MapHas(plugins, name)
       THEN /\ emitted' = <<>>
            /\ thrown' = "Plugin not found: " \o name
            /\ UNCHANGED plugins
       ELSE IF tool \notin Range(PluginTools(MapGet(plugins, name).plugin))
       THEN /\ emitted' = <<>>
            /\ thrown' = "Tool not found: " \o tool \o " in plugin " \o name
            /\ UNCHANGED plugins
       ELSE /\ emitted' = <<[type |-> "stateChange", name |-> name]>>
            /\ thrown' = NoError
            /\ UNCHANGED plugins
    /\ UNCHANGED <<loads, loadsUsed, unloads, unloadsUsed, hooks, initLog, toggles,
                   calls, history, stats, logVars, invocations, listResp, destroyLog>>

\* disableTool without the test that the plugin has the tool
disableToolUnchecked(name, tool) ==
    /\ toolOps' = toolOps + 1
    /\ IF ~MapHas(plugins, name)
       THEN /\ emitted' = <<>>
            /\ thrown' = "Plugin not found: " \o name
            /\ UNCHANGED plugins
       ELSE /\ plugins' = MapSet(plugins, name,
                    [MapGet(plugins, name) EXCEPT !.disabledTools = @ \cup {tool}])
            /\ emitted' = <<[type |-> "stateChange", name |-> name]>>
            /\ thrown' = NoError
    /\ UNCHANGED <<loads, loadsUsed, unloads, unloadsUsed, hooks, initLog, toggles,
                   calls, history, stats, logVars, invocations, listResp, destroyLog>>

\* disableTool: the tool must be one the plugin exports
disableTool(name, tool) ==
    /\ toolOps' = toolOps + 1
    /\ IF ~MapHas(plugins, name)
       THEN /\ emitted' = <<>>
            /\ thrown' = "Plugin not found: " \o name
            /\ UNCHANGED plugins
       ELSE IF tool \notin Range(PluginTools(MapGet(plugins, name).plugin))
       THEN /\ emitted' = <<>>
            /\ thrown' = "Tool not found: " \o tool \o " in plugin " \o name
            /\ UNCHANGED plugins
       ELSE /\ plugins' = MapSet(plugins, name,
                    [MapGet(plugins, name) EXCEPT !.disabledTools = @ \cup {tool}])
            /\ emitted' = <<[type |-> "stateChange", name |-> name]>>
            /\ thrown' = NoError
    /\ UNCHANGED <<loads, loadsUsed, unloads, unloadsUsed, hooks, initLog, toggles,
                   calls, history, stats, logVars, invocations, listResp, destroyLog>>

\* the inner loop of getMcpTools without the test of disabledTools
pluginEntriesNoMask(name, info) ==
    LET ts == PluginTools(info.plugin) IN
    [i \in 1..Len(ts) |->
        [name |-> name \o "_" \o ts[i], plugin |-> name, handler |-> <<info.plugin, ts[i]>>]]

\* the entries getMcpTools pushes for one plugin: {...tool, name: `${name}_${tool.name}`, _plugin: name}
pluginEntries(name, info) ==
    LET kept == SelectSeq(PluginTools(info.plugin), LAMBDA t : t \notin info.disabledTools) IN
    [i \in 1..Len(kept) |->
        [name |-> name \o "_" \o kept[i], plugin |-> name, handler |-> <<info.plugin, kept[i]>>]]

RECURSIVE getMcpTools(_)
\* PluginManager.getMcpTools
getMcpTools(ps) ==
    IF ps = <<>> THEN <<>>
    ELSE (IF Head(ps).v.enabled THEN pluginEntries(Head(ps).k, Head(ps).v) ELSE <<>>)
         \o getMcpTools(Tail(ps))

\* the tools/list handler's result over a manager: the names, in order
Listing(ps) == LET ts == getMcpTools(ps) IN [i \in 1..Len(ts) |-> ts[i].name]

(***************************************************************************)
(* Tool handlers and the conversion of their results to text               *)
(***************************************************************************)
Returned(r) == [threw |-> FALSE, message |-> "", result |-> r]

Threw(msg) == [threw |-> TRUE, message |-> msg, result |-> [type |-> "none", val |-> ""]]

\* what a handler may do: return a string, return a plain object, return an
\* object JSON.stringify cannot serialise (a cycle, a BigInt), or throw
HandlerOutcomes(handler) ==
    CASE handler[2] = "danger" ->
           {Returned([type |-> "object", val |-> "{\n  \"ok\": true\n}"]), Threw("boom")}
      [] handler[2] = "x_read" ->
           {Returned([type |-> "string", val |-> "hi"]), Returned([type |-> "cyclic", val |-> ""])}
      [] OTHER ->
           {Returned([type |-> "string", val |-> "hi"]), Threw("boom")}

\* typeof result === 'object' ? JSON.stringify(result, null, 2) : String(result)
Stringify(r) ==
    IF r.type = "cyclic"
    THEN [threw |-> TRUE, text |-> "Converting circular structure to JSON"]
    ELSE [threw |-> FALSE, text |-> r.val]

\* a dispatcher that takes every returned result as a success
SettleAsReturned(outcome) ==
    IF outcome.threw
    THEN [success |-> FALSE, error |-> outcome.message, text |-> "Error: " \o outcome.message]
    ELSE [success |-> TRUE, error |-> NoError, text |-> Stringify(outcome.result).text]

\* the try/catch around the handler call: the log entry and the text answered
\* (the fields id, clientId and tool are added by the caller)
Settle(outcome) ==
    IF outcome.threw
    THEN [success |-> FALSE, error |-> outcome.message, text |-> "Error: " \o outcome.message]
    ELSE LET str == Stringify(outcome.result) IN
         IF str.threw
         THEN [success |-> FALSE, error |-> str.text, text |-> "Error: " \o str.text]
         ELSE [success |-> TRUE, error |-> NoError, text |-> str.text]

LogEntry(id, clientId, tool, success, error) ==
    [call |-> id, clientId |-> clientId, tool |-> tool, success |-> success, error |-> error]

NoHandler == <<"", "">>

NoResponse == [text |-> "", isError |-> FALSE]

NoOutcome == [threw |-> FALSE, message |-> "", result |-> [type |-> "none", val |-> ""]]

\* a tool call; visible: the tool asked for was in the visible-tool list when the
\* call was dispatched; outcome: what the handler did, once it has settled
FreeCall == [st |-> "free", via |-> "", plugin |-> "", tool |-> "", handler |-> NoHandler,
             visible |-> FALSE, outcome |-> NoOutcome, resp |-> NoResponse]

NextCallId == Cardinality({i \in DOMAIN calls : calls[i].st # "free"}) + 1

(***************************************************************************)
(* MCP server: src/packages/core/src/mcp/server.ts                         *)
(***************************************************************************)
\* the tools/list handler
toolsList ==
    /\ listResp' = [listed |-> TRUE,
                    tools |-> LET ts == getMcpTools(plugins) IN [i \in 1..Len(ts) |-> ts[i].name]]
    /\ UNCHANGED <<plugins, loads, loadsUsed, unloads, unloadsUsed, hooks, initLog, emitted,
                   toggles, calls, history, stats, logVars, invocations, thrown, destroyLog, toolOps>>

\* a lookup that also accepts a tool's local name
findToolLoose(tools, toolName) ==
    LET hits == SelectSeq(tools, LAMBDA t : t.name = toolName \/ t.handler[2] = toolName) IN
    IF hits = <<>> THEN [found |-> FALSE, handler |-> NoHandler]
    ELSE [found |-> TRUE, handler |-> hits[1].handler]

\* pluginTools.find((t) => t.name === toolName)
findTool(tools, toolName) ==
    LET hits == SelectSeq(tools, LAMBDA t : t.name = toolName) IN
    IF hits = <<>> THEN [found |-> FALSE, handler |-> NoHandler]
    ELSE [found |-> TRUE, handler |-> hits[1].handler]

\* the clientId createMcpServer was given; every caller in src/ leaves it to the default
McpClientId == "stdio"

\* the tools/call handler up to the await of the tool's handler
toolsCall(toolName) ==
    /\ NextCallId \in DOMAIN calls
    /\ LET id == NextCallId
           tools == getMcpTools(plugins)
           tool == findTool(tools, toolName)
           base == [FreeCall EXCEPT !.via = "mcp", !.tool = toolName,
                                    !.visible = \E i \in 1..Len(tools) : tools[i].name = toolName]
       IN
       IF ~tool.found
       THEN LET errorText == "Unknown tool: " \o toolName
                entry == LogEntry(id, McpClientId, toolName, FALSE, errorText) IN
            /\ loggerLog(entry)
            /\ calls' = [calls EXCEPT ![id] =
                          [base EXCEPT !.st = "done",
                                       !.resp = [text |-> errorText, isError |-> TRUE]]]
            /\ UNCHANGED invocations
       ELSE /\ invocations' = Append(invocations, [call |-> id, handler |-> tool.handler])
            /\ calls' = [calls EXCEPT ![id] =
                          [base EXCEPT !.st = "running", !.handler = tool.handler]]
            /\ UNCHANGED <<history, stats, logVars>>
    /\ UNCHANGED <<plugins, loads, loadsUsed, unloads, unloadsUsed, hooks, initLog, emitted,
                   toggles, listResp, thrown, destroyLog, toolOps>>

\* the tool's handler settled: log, answer
toolsCallSettled(id, outcome) ==
    /\ calls[id].st = "running"
    /\ calls[id].via = "mcp"
    /\ outcome \in HandlerOutcomes(calls[id].handler)
    /\ LET s == Settle(outcome)
           entry == LogEntry(id, McpClientId, calls[id].tool, s.success, s.error) IN
       /\ loggerLog(entry)
       /\ calls' = [calls EXCEPT ![id].st = "done", ![id].outcome = outcome,
                                 ![id].resp = [text |-> s.text, isError |-> ~s.success]]
    /\ UNCHANGED <<plugins, loads, loadsUsed, unloads, unloadsUsed, hooks, initLog, emitted,
                   toggles, invocations, listResp, thrown, destroyLog, toolOps>>

(***************************************************************************)
(* The local `call` verb: src/unnamed/part_010                             *)
(***************************************************************************)
\* names.join(', ') || '(none)'
JoinOrNone(names) == IF Join(names, ", ") = "" THEN "(none)" ELSE Join(names, ", ")

\* callCommand.execute with both arguments given, up to the await of the handler
callCommand(pluginNameArg, toolName) ==
    /\ NextCallId \in DOMAIN calls
    /\ LET id == NextCallId
           tools == getMcpTools(plugins)
           base == [FreeCall EXCEPT !.via = "cli", !.plugin = pluginNameArg, !.tool = toolName,
                                    !.visible = \E i \in 1..Len(tools) :
                                                   /\ tools[i].plugin = pluginNameArg
                                                   /\ tools[i].handler[2] = toolName]
       IN
       IF ~MapHas(plugins, pluginNameArg)
       THEN /\ calls' = [calls EXCEPT ![id] = [base EXCEPT !.st = "done", !.resp =
                    [text |-> "Plugin not found: " \o pluginNameArg \o "\nAvailable: "
                                \o JoinOrNone(MapKeys(plugins)),
                     isError |-> TRUE]]]
            /\ UNCHANGED invocations
       ELSE LET pkg == MapGet(plugins, pluginNameArg).plugin IN
            IF toolName \notin Range(PluginTools(pkg))
            THEN /\ calls' = [calls EXCEPT ![id] = [base EXCEPT !.st = "done", !.resp =
                         [text |-> "Tool not found: " \o toolName \o "\nAvailable tools in "
                                     \o pluginNameArg \o ": " \o JoinOrNone(PluginTools(pkg)),
                          isError |-> TRUE]]]
                 /\ UNCHANGED invocations
            ELSE /\ invocations' = Append(invocations, [call |-> id, handler |-> <<pkg, toolName>>])
                 /\ calls' = [calls EXCEPT ![id] =
                               [base EXCEPT !.st = "running", !.handler = <<pkg, toolName>>]]
    /\ UNCHANGED <<plugins, loads, loadsUsed, unloads, unloadsUsed, hooks, initLog, emitted,
                   toggles, history, stats, logVars, listResp, thrown, destroyLog, toolOps>>

\* the handler settled: log with clientId 'cli', answer with the plugin prefix
callCommandSettled(id, outcome) ==
    /\ calls[id].st = "running"
    /\ calls[id].via = "cli"
    /\ outcome \in HandlerOutcomes(calls[id].handler)
    /\ LET s == Settle(outcome)
           c == calls[id]
           entry == LogEntry(id, "cli", c.plugin \o "_" \o c.tool, s.success, s.error) IN
       /\ loggerLog(entry)
       /\ calls' = [calls EXCEPT ![id].st = "done", ![id].outcome = outcome,
                                 ![id].resp = [text |-> "[" \o c.plugin \o "] " \o s.text,
                                               isError |-> ~s.success]]
    /\ UNCHANGED <<plugins, loads, loadsUsed, unloads, unloadsUsed, hooks, initLog, emitted,
                   toggles, invocations, listResp, thrown, destroyLog, toolOps>>

VARIABLES
    commands,     \* CommandRegistry.commands : Map name -> RegisteredCommand
    aliases,      \* CommandRegistry.aliases : Map alias -> name
    collisions,   \* CommandRegistry.collisions : Map name -> Map plugin -> PluginCliCommand
    logCallback,  \* CommandRegistry.logCallback is set
    logged,       \* messages handed to the log callback by the latest step
    claimed,      \* <<plugin, verb>> registered through registerPluginCommand and not unregistered
    registered,   \* names of the built-ins whose register() returned
    last          \* the latest registry operation and its outcome

regVars == <<commands, aliases, collisions, logCallback, logged, claimed, registered, last>>

\* the operations performed last, newest last, each with the manager's map as
\* it was when the operation started (history variable)
VARIABLE trail

\* the caller of each tool call, by call id: "cli", "stdio" or the clientId of
\* the SSE session the request arrived on (history variable)
VARIABLE origin

(***************************************************************************)
(* HTTP/SSE transport: src/packages/core/src/mcp/sse-transport.ts          *)
(***************************************************************************)
VARIABLES
    clients,          \* SseMcpServer.clients : Map clientId -> SseClient (named by its id)
    clientIdCounter,  \* SseMcpServer.clientIdCounter
    sessions,         \* every SseClient created, with its response stream, its MCP
                      \* server and transport: Map clientId -> record
    posts,            \* POST /message requests, by arrival
    reported,         \* the last count passed to onClientCountChange
    healthResp,       \* the last answer of GET /health
    listening,        \* httpServer accepts requests
    assigned,         \* every clientId given to a session, in order (history variable)
    listeners         \* pluginManager's listeners of each listened event: the session
                      \* whose MCP server registered it, in order of registration

sseVars == <<clients, clientIdCounter, sessions, posts, reported, healthResp, listening,
             assigned, listeners>>

\* proxy plugin: src/packages/plugin-proxy/src/mcp-client.ts
VARIABLES
    mcp,       \* McpClient fields: client, transport, tools, connected, lastError
    children,  \* the child client/transport pairs created by connect(), by number
    conn,      \* position of the connect() call in flight, and its child
    disc,      \* position of the disconnect() call in flight; whether it began connected
    config     \* serverConfig of the plugin instance, once init(ctx) has run

proxyVars == <<mcp, children, conn, disc, config>>

MaxConnects == 2

\* the tools the child MCP server answers to tools/list
ChildTools == <<"read_file">>

\* a configuration has a command, a url, both or neither
ProxyConfigs == [set : {TRUE}, command : BOOLEAN, url : BOOLEAN]

\* createProxyPlugin(): the instance before init(ctx)
InitProxy ==
    /\ config = [set |-> FALSE, command |-> FALSE, url |-> FALSE]
    /\ mcp = [client |-> 0, transport |-> 0, tools |-> <<>>, connected |-> FALSE,
              lastError |-> NoError]
    /\ children = <<>>
    /\ conn = [pc |-> "idle", child |-> 0]
    /\ disc = [pc |-> "idle", wasConnected |-> FALSE]

(***************************************************************************)
(* The process: src/packages/core/src/cli.tsx                              *)
(***************************************************************************)
VARIABLES
    teardown,  \* the destroyAll() call: its position, the names it took, the names
               \* still to unload, the names whose destroy() it has called
    proc,      \* the command the process runs, and its position
    out        \* what was written to the standard streams, in order

procVars == <<teardown, proc, out>>

InitProc ==
    /\ teardown = [pc |-> "idle", names |-> <<>>, rest |-> <<>>, called |-> <<>>]
    /\ proc = [mode |-> "", pc |-> "start"]
    /\ out = <<>>

vars == <<pmVars, logVars, regVars, trail, origin, sseVars, proxyVars, procVars>>

(***************************************************************************)
(* Command registry: src/packages/core/src/commands/registry.ts            *)
(***************************************************************************)
NoPlugin == ""

NoCmd == [owner |-> "", name |-> ""]

\* a built-in command (no _plugin)
Builtin(name, als) ==
    [kind |-> "builtin", name |-> name, plugin |-> NoPlugin, cmd |-> NoCmd, aliases |-> als]

\* the direct command registerPluginCommand and unregisterPlugin build around cmd
Direct(pluginName, cmd) ==
    [kind |-> "direct", name |-> cmd.name, plugin |-> pluginName, cmd |-> cmd, aliases |-> <<>>]

\* createRouterCommand: the command object it returns carries no _plugin
createRouterCommand(cmdName) ==
    [kind |-> "router", name |-> cmdName, plugin |-> NoPlugin, cmd |-> NoCmd, aliases |-> <<>>]

\* String.prototype.toLowerCase on the names of the model
toLowerCase(s) ==
    CASE s = "STOP" -> "stop"
      [] s = "HELP" -> "help"
      [] s = "H" -> "h"
      [] OTHER -> s

RECURSIVE registerAliases(_, _, _, _)
\* register: the loop over command.aliases; it throws at the first alias taken
registerAliases(cmds, als, list, name) ==
    IF list = <<>> THEN [aliases |-> als, threw |-> FALSE]
    ELSE IF MapHas(cmds, Head(list)) \/ MapHas(als, Head(list))
    THEN [aliases |-> als, threw |-> TRUE]
    ELSE registerAliases(cmds, MapSet(als, Head(list), name), Tail(list), name)

NoLast == [op |-> "none", input |-> <<>>, plugin |-> "", verbs |-> {}, invoked |-> <<>>,
           raw |-> [threw |-> FALSE, output |-> "", success |-> FALSE],
           result |-> [output |-> "", success |-> FALSE]]

\* CommandRegistry.register
register(command) ==
    /\ IF MapHas(commands, command.name) \/ MapHas(aliases, command.name)
       THEN UNCHANGED <<commands, aliases, registered>>
       ELSE LET cmds == MapSet(commands, command.name, command)
                r == registerAliases(cmds, aliases, command.aliases, command.name) IN
            /\ commands' = cmds
            /\ aliases' = r.aliases
            /\ registered' = IF r.threw THEN registered ELSE registered \cup {command.name}
    /\ logged' = <<>>
    /\ last' = [NoLast EXCEPT !.op = "register"]
    /\ UNCHANGED <<collisions, logCallback, claimed>>

\* CommandRegistry.setLogCallback
setLogCallback ==
    /\ ~logCallback
    /\ logCallback' = TRUE
    /\ logged' = <<>>
    /\ last' = [NoLast EXCEPT !.op = "setLogCallback"]
    /\ UNCHANGED <<commands, aliases, collisions, claimed, registered>>

\* CommandRegistry.log: the callback gets the message when one is set
log(message) == IF logCallback THEN <<message>> ELSE <<>>

\* registerPluginCommand: existing && !existing._plugin
conflictsWithBuiltin(existing) == existing.plugin = NoPlugin

\* CommandRegistry.registerPluginCommand
registerPluginCommand(pluginName, cmd) ==
    /\ IF MapHas(commands, cmd.name) /\ conflictsWithBuiltin(MapGet(commands, cmd.name))
       THEN \* collision with a builtin command: warn and ignore
            /\ logged' = log("[" \o pluginName \o "] Warning: command '" \o cmd.name
                             \o "' conflicts with builtin, ignored")
            /\ claimed' = IF MapGet(commands, cmd.name).kind = "builtin"
                          THEN claimed ELSE claimed \cup {<<pluginName, cmd.name>>}
            /\ UNCHANGED <<commands, collisions>>
       ELSE IF MapHas(commands, cmd.name)
       THEN \* collision with another plugin's command
            LET existing == MapGet(commands, cmd.name)
                first == ~MapHas(collisions, cmd.name)
                \* getPluginCommandData(existing._plugin, cmd.name) reads this.collisions
                cols == IF first THEN MapSet(collisions, cmd.name, <<>>) ELSE collisions IN
            /\ commands' = IF first
                           THEN MapSet(commands, cmd.name, createRouterCommand(cmd.name))
                           ELSE commands
            /\ collisions' = MapSet(cols, cmd.name, MapSet(MapGet(cols, cmd.name), pluginName, cmd))
            /\ claimed' = claimed \cup {<<pluginName, cmd.name>>}
            /\ logged' = <<>>
       ELSE \* no collision: register directly
            /\ commands' = MapSet(commands, cmd.name, Direct(pluginName, cmd))
            /\ collisions' = IF MapHas(collisions, cmd.name) THEN collisions
                             ELSE MapSet(collisions, cmd.name, <<[k |-> pluginName, v |-> cmd]>>)
            /\ claimed' = claimed \cup {<<pluginName, cmd.name>>}
            /\ logged' = <<>>
    /\ last' = [NoLast EXCEPT !.op = "registerPluginCommand", !.plugin = pluginName,
                              !.verbs = {cmd.name}]
    /\ UNCHANGED <<aliases, logCallback, registered>>

RECURSIVE deleteAliases(_, _)
\* unregister: the loop deleting the command's aliases
deleteAliases(als, list) ==
    IF list = <<>> THEN als ELSE deleteAliases(MapDelete(als, Head(list)), Tail(list))

RECURSIVE unregisterAll(_, _, _)
\* unregisterPlugin: this.unregister(name) for every name of toRemove
unregisterAll(cmds, als, toRemove) ==
    IF toRemove = <<>> THEN [commands |-> cmds, aliases |-> als]
    ELSE IF ~MapHas(cmds, Head(toRemove)) THEN unregisterAll(cmds, als, Tail(toRemove))
    ELSE unregisterAll(MapDelete(cmds, Head(toRemove)),
                       deleteAliases(als, MapGet(cmds, Head(toRemove)).aliases),
                       Tail(toRemove))

RECURSIVE cleanCollisions(_, _, _, _)
\* unregisterPlugin: the loop over this.collisions; todo are the entries still to visit
cleanCollisions(cmds, cols, todo, pluginName) ==
    IF todo = <<>> THEN [commands |-> cmds, collisions |-> cols]
    ELSE LET cmdName == Head(todo).k
             left == MapDelete(Head(todo).v, pluginName) IN
         IF Len(left) = 0
         THEN cleanCollisions(cmds, MapDelete(cols, cmdName), Tail(todo), pluginName)
         ELSE IF Len(left) = 1
         THEN cleanCollisions(MapSet(cmds, cmdName, Direct(left[1].k, left[1].v)),
                              MapSet(cols, cmdName, left), Tail(todo), pluginName)
         ELSE cleanCollisions(cmds, MapSet(cols, cmdName, left), Tail(todo), pluginName)

\* CommandRegistry.unregisterPlugin
unregisterPlugin(pluginName) ==
    LET toRemove == MapKeys(SelectSeq(commands, LAMBDA e : e.v.plugin = pluginName))
        removed == unregisterAll(commands, aliases, toRemove)
        cleaned == cleanCollisions(removed.commands, collisions, collisions, pluginName) IN
    /\ commands' = cleaned.commands
    /\ aliases' = removed.aliases
    /\ collisions' = cleaned.collisions
    /\ claimed' = {c \in claimed : c[1] # pluginName}
    /\ logged' = <<>>
    /\ last' = [NoLast EXCEPT !.op = "unregisterPlugin", !.plugin = pluginName,
                              !.verbs = {c[2] : c \in {d \in claimed : d[1] = pluginName}}]
    /\ UNCHANGED <<logCallback, registered>>

NotFound == [found |-> FALSE, command |-> createRouterCommand("")]

\* CommandRegistry.get
get(cmds, als, nameOrAlias) ==
    LET lowerName == toLowerCase(nameOrAlias)
        sameName == SelectSeq(cmds, LAMBDA e : toLowerCase(e.k) = lowerName) IN
    IF MapHas(cmds, lowerName) THEN [found |-> TRUE, command |-> MapGet(cmds, lowerName)]
    ELSE IF MapHas(als, lowerName) /\ MapHas(cmds, MapGet(als, lowerName))
    THEN [found |-> TRUE, command |-> MapGet(cmds, MapGet(als, lowerName))]
    ELSE IF MapHas(als, lowerName) THEN NotFound
    ELSE IF sameName # <<>> THEN [found |-> TRUE, command |-> sameName[1].v]
    ELSE NotFound

\* getCollisionPlugins
getCollisionPlugins(cols, cmdName) ==
    IF MapHas(cols, cmdName) THEN MapKeys(MapGet(cols, cmdName)) ELSE <<>>

\* what a plugin's cmd.execute(args) may do: resolve to a result or throw
CmdOutcomes ==
    {[threw |-> FALSE, output |-> "out", success |-> TRUE],
     [threw |-> FALSE, output |-> "", success |-> TRUE],
     [threw |-> TRUE, output |-> "boom", success |-> FALSE]}

\* result.output ? `[${pluginName}] ${result.output}` : result.output
prefixOutput(pluginName, result) ==
    [output |-> IF result.output # "" THEN "[" \o pluginName \o "] " \o result.output
                ELSE result.output,
     success |-> result.success]

\* a command's execute(args): the handlers it calls and what it returns or throws
run(cols, command, args, outcome) ==
    LET call(cmd, as) == <<[owner |-> cmd.owner, name |-> cmd.name, args |-> as]>>
        settle(pluginName) ==
            IF outcome.threw
            THEN [threw |-> TRUE, output |-> outcome.output, success |-> FALSE]
            ELSE [threw |-> FALSE] @@ prefixOutput(pluginName, outcome)
    IN
    CASE command.kind = "builtin" ->
           [invoked |-> <<>>,
            result |-> [threw |-> FALSE, output |-> "builtin " \o command.name, success |-> TRUE]]
      [] command.kind = "direct" ->
           [invoked |-> call(command.cmd, args), result |-> settle(command.plugin)]
      [] OTHER ->
           \* the router command of createRouterCommand
           IF args = <<>> \/ args[1] = ""
           THEN [invoked |-> <<>>,
                 result |-> [threw |-> FALSE, success |-> FALSE,
                             output |-> "Usage: " \o command.name
                                        \o " <plugin> [args]\nAvailable plugins: "
                                        \o Join(getCollisionPlugins(cols, command.name), ", ")]]
           ELSE IF ~(MapHas(cols, command.name) /\ MapHas(MapGet(cols, command.name), args[1]))
           THEN [invoked |-> <<>>,
                 result |-> [threw |-> FALSE, success |-> FALSE,
                             output |-> "Plugin '" \o args[1] \o "' not found for command '"
                                        \o command.name \o "'\nAvailable: "
                                        \o Join(getCollisionPlugins(cols, command.name), ", ")]]
           ELSE [invoked |-> call(MapGet(MapGet(cols, command.name), args[1]), Tail(args)),
                 result |-> settle(args[1])]

\* CommandRegistry.execute on the parsed input [cmdName, ...args]
Exec(cmds, als, cols, parts, outcome) ==
    LET found == get(cmds, als, parts[1]) IN
    IF ~found.found
    THEN [invoked |-> <<>>,
          result |-> [output |-> "Unknown command: " \o parts[1]
                                 \o ". Type 'help' for available commands.",
                      success |-> FALSE]]
    ELSE LET r == run(cols, found.command, Tail(parts), outcome) IN
         [invoked |-> r.invoked,
          result |-> IF r.result.threw
                     THEN [output |-> "Error: " \o r.result.output, success |-> FALSE]
                     ELSE [output |-> r.result.output, success |-> r.result.success]]

execute(parts, outcome) ==
    /\ LET e == Exec(commands, aliases, collisions, parts, outcome) IN
       last' = [NoLast EXCEPT !.op = "execute", !.input = parts, !.invoked = e.invoked,
                              !.raw = IF e.invoked = <<>> THEN NoLast.raw ELSE outcome,
                              !.result = e.result]
    /\ logged' = <<>>
    /\ UNCHANGED <<commands, aliases, collisions, logCallback, claimed, registered>>

(***************************************************************************)
(* Specification of the command registry                                   *)
(***************************************************************************)
Builtins == {Builtin("help", <<"h">>), Builtin("stop", <<>>)}

RegPlugins == {"a", "b", "c"}

\* registerPluginCommand(pluginName, cmd) calls, cmd named by its owner and verb
RegRequests == {<<"a", "stop">>, <<"b", "stop">>, <<"c", "stop">>, <<"a", "h">>}

\* inputs of execute, parsed
ExecInputs == {<<"stop">>, <<"stop", "b">>, <<"stop", "c", "x">>, <<"stop", "zz">>,
               <<"STOP">>, <<"h">>, <<"HELP">>}

\* a step of the registry leaves the manager, the dispatchers and the logger alone
Reg(A) == A /\ UNCHANGED <<pmVars, logVars, trail, origin, sseVars, proxyVars, procVars>>

NextReg ==
    \/ Reg(\E b \in Builtins : register(b))
    \/ Reg(setLogCallback)
    \/ Reg(\E r \in RegRequests : registerPluginCommand(r[1], [owner |-> r[1], name |-> r[2]]))
    \/ Reg(\E p \in RegPlugins : unregisterPlugin(p))
    \/ Reg(\E i \in ExecInputs, o \in CmdOutcomes : execute(i, o))

(***************************************************************************)
(* Specification of the plugin manager, the dispatchers and the logger     *)
(***************************************************************************)
\* loadPlugin(pluginName, packageName) calls
LoadRequests == {<<"fs", "pkgA">>, <<"fs_x", "pkgB">>, <<"fs_x", "pkgProxy">>}

\* enableTool / disableTool (pluginName, toolName) calls
ToolRequests == {<<"fs", "danger">>, <<"fs", "x_read">>, <<"fs_x", "read">>, <<"fs_x", "nope">>}

\* names an MCP client asks for: qualified names, and a bare local name
McpRequests == {"fs_x_read", "fs_danger", "read"}

NoClient == "<none>"

FreePost == [st |-> "free", clientId |-> "", body |-> "", client |-> NoClient, status |-> 0]

\* a new SseMcpServer, not yet serving any request
InitSse ==
    /\ clients = <<>>
    /\ clientIdCounter = 0
    /\ sessions = <<>>
    /\ posts = [i \in 1..MaxPosts |-> FreePost]
    /\ reported = 0
    /\ healthResp = [asked |-> FALSE, clients |-> 0]
    /\ listening = TRUE
    /\ assigned = <<>>
    /\ listeners = <<>>

InitReg ==
    /\ commands = <<>>
    /\ aliases = <<>>
    /\ collisions = <<>>
    /\ logCallback = FALSE
    /\ logged = <<>>
    /\ claimed = {}
    /\ registered = {}
    /\ last = NoLast

InitPm ==
    /\ plugins = <<>>
    /\ loads = [i \in 1..MaxLoads |-> FreeLoad]
    /\ loadsUsed = 0
    /\ unloads = [n \in RegNames |-> 0]
    /\ unloadsUsed = 0
    /\ hooks = {}
    /\ initLog = <<>>
    /\ emitted = <<>>
    /\ toggles = 0
    /\ calls = [i \in 1..MaxCalls |-> FreeCall]
    /\ history = <<>>
    /\ stats = [calls |-> 0, success |-> 0, errors |-> 0]
    /\ invocations = <<>>
    /\ listResp = [listed |-> FALSE, tools |-> <<>>]
    /\ thrown = NoError
    /\ destroyLog = <<>>
    /\ toolOps = 0
    /\ trail = <<>>
    /\ origin = <<>>
    /\ InitSse
    /\ InitLog
    /\ InitProxy
    /\ InitProc

Init == InitPm /\ InitReg

\* a step of the manager, the dispatchers or the logger leaves the registry alone
Pm(A) == A /\ UNCHANGED <<regVars, trail, origin, sseVars, proxyVars, procVars>>

\* the plugin manager's operations
Next ==
    \/ Pm(\E r \in LoadRequests : loadPlugin(r[1], r[2]))
    \/ Pm(\E id \in 1..MaxLoads : loadPluginImported(id))
    \/ Pm(\E id \in 1..MaxLoads, ok \in BOOLEAN : loadPluginInit(id, ok))
    \/ Pm(\E n \in RegNames : unloadPlugin(n))
    \/ Pm(\E n \in RegNames, ok \in BOOLEAN : unloadPluginDestroyed(n, ok))
    \/ Pm(toggles < MaxToggles /\ \E n \in RegNames : enablePlugin(n))
    \/ Pm(toggles < MaxToggles /\ \E n \in RegNames : disablePlugin(n))
    \/ Pm(\E h \in hooks, ok \in BOOLEAN : pluginHookSettled(h, ok))

Spec == Init /\ [][Next]_vars

(***************************************************************************)
(* Specification of the tool dispatchers: the manager has loaded the       *)
(* configuration {fs: pkgA, fs_x: pkgB} (loadFromConfig), and tool calls   *)
(* run while plugins and tools are enabled and disabled.                   *)
(***************************************************************************)
\* <plugin> <tool> pairs given to the `call` verb
CliRequests == {<<"fs", "danger">>, <<"fs_x", "read">>}

InitCall ==
    /\ plugins = <<[k |-> "fs", v |-> [plugin |-> "pkgA", enabled |-> TRUE,
                                      disabledTools |-> ConfigDisabledTools("fs"), iid |-> 1]],
                   [k |-> "fs_x", v |-> [plugin |-> "pkgB", enabled |-> TRUE,
                                        disabledTools |-> ConfigDisabledTools("fs_x"), iid |-> 2]]>>
    /\ loads = [i \in 1..MaxLoads |-> FreeLoad]
    /\ loadsUsed = MaxLoads
    /\ unloads = [n \in RegNames |-> 0]
    /\ unloadsUsed = MaxUnloads
    /\ hooks = {}
    /\ initLog = <<>>
    /\ emitted = <<>>
    /\ toggles = 0
    /\ calls = [i \in 1..MaxCalls |-> FreeCall]
    /\ history = <<>>
    /\ stats = [calls |-> 0, success |-> 0, errors |-> 0]
    /\ invocations = <<>>
    /\ listResp = [listed |-> FALSE, tools |-> <<>>]
    /\ thrown = NoError
    /\ destroyLog = <<>>
    /\ toolOps = 0
    /\ trail = <<>>
    /\ origin = <<>>
    /\ InitSse
    /\ InitLog
    /\ InitProxy
    /\ InitProc
    /\ InitReg

NextCallStep ==
    \/ Pm(toggles + toolOps < MaxToggles /\ \E n \in RegNames : enablePlugin(n))
    \/ Pm(toggles + toolOps < MaxToggles /\ \E n \in RegNames : disablePlugin(n))
    \/ Pm(\E h \in hooks, ok \in BOOLEAN : pluginHookSettled(h, ok))
    \/ Pm(toggles + toolOps < MaxToggles /\ \E r \in ToolRequests : enableTool(r[1], r[2]))
    \/ Pm(toggles + toolOps < MaxToggles /\ \E r \in ToolRequests : disableTool(r[1], r[2]))
    \/ Pm(toolsList)
    \/ Pm(\E t \in McpRequests : toolsCall(t))
    \/ Pm(\E id \in 1..MaxCalls : \E o \in HandlerOutcomes(calls[id].handler) : toolsCallSettled(id, o))
    \/ Pm(\E r \in CliRequests : callCommand(r[1], r[2]))
    \/ Pm(\E id \in 1..MaxCalls : \E o \in HandlerOutcomes(calls[id].handler) : callCommandSettled(id, o))

SpecCall == InitCall /\ [][NextCallStep]_vars

(***************************************************************************)
(* SpecSession: tool calls told apart by caller: the process-stdio session, *)
(* an SSE session and the local `call` verb, over the same two plugins.    *)
(* A session hands each request to its handler when the request arrives.  *)
(***************************************************************************)
\* the MCP sessions: the one startStdioServer serves and one GET /sse made
McpSessions == {"stdio", "client-1"}

\* a request of caller c is dispatched
From(c, A) ==
    /\ A
    /\ origin' = Append(origin, c)
    /\ UNCHANGED <<regVars, trail, sseVars, proxyVars, procVars>>

InitSession ==
    /\ plugins = <<[k |-> "fs", v |-> [plugin |-> "pkgA", enabled |-> TRUE,
                                      disabledTools |-> ConfigDisabledTools("fs"), iid |-> 1]],
                   [k |-> "fs_x", v |-> [plugin |-> "pkgB", enabled |-> TRUE,
                                        disabledTools |-> ConfigDisabledTools("fs_x"), iid |-> 2]]>>
    /\ loads = [i \in 1..MaxLoads |-> FreeLoad]
    /\ loadsUsed = MaxLoads
    /\ unloads = [n \in RegNames |-> 0]
    /\ unloadsUsed = MaxUnloads
    /\ hooks = {}
    /\ initLog = <<>>
    /\ emitted = <<>>
    /\ toggles = 0
    /\ calls = [i \in 1..MaxSessionCalls |-> FreeCall]
    /\ history = <<>>
    /\ stats = [calls |-> 0, success |-> 0, errors |-> 0]
    /\ invocations = <<>>
    /\ listResp = [listed |-> FALSE, tools |-> <<>>]
    /\ thrown = NoError
    /\ destroyLog = <<>>
    /\ toolOps = 0
    /\ trail = <<>>
    /\ origin = <<>>
    /\ InitSse
    /\ InitLog
    /\ InitProxy
    /\ InitProc
    /\ InitReg

NextSession ==
    \/ \E c \in McpSessions, t \in McpRequests : From(c, toolsCall(t))
    \/ Pm(\E id \in DOMAIN calls : \E o \in HandlerOutcomes(calls[id].handler) : toolsCallSettled(id, o))
    \/ \E r \in CliRequests : From("cli", callCommand(r[1], r[2]))
    \/ Pm(\E id \in DOMAIN calls : \E o \in HandlerOutcomes(calls[id].handler) : callCommandSettled(id, o))

SpecSession == InitSession /\ [][NextSession]_vars

(***************************************************************************)
(* SpecToggle:          the runtime switches of the manager (enablePlugin, *)
(* disablePlugin, enableTool, disableTool) over the same two plugins, with *)
(* the last operations recorded.                                           *)
(***************************************************************************)
TrailLen == 2

\* an operation of the manager, recorded
Op(op, name, tool, A) ==
    /\ A
    /\ trail' = LET t == Append(trail, [op |-> op, name |-> name, tool |-> tool,
                                        before |-> plugins])
                IN IF Len(t) > TrailLen THEN Tail(t) ELSE t
    /\ UNCHANGED <<regVars, origin, sseVars, proxyVars, procVars>>

InitToggle == InitCall

NextToggle ==
    \/ toggles < MaxSwitches /\ \E n \in RegNames : Op("enablePlugin", n, "", enablePlugin(n))
    \/ toggles < MaxSwitches /\ \E n \in RegNames : Op("disablePlugin", n, "", disablePlugin(n))
    \/ \E h \in hooks, ok \in BOOLEAN : Op("hookSettled", h.name, "", pluginHookSettled(h, ok))
    \/ toolOps < MaxToolOps /\ \E r \in ToolRequests : Op("enableTool", r[1], r[2], enableTool(r[1], r[2]))
    \/ toolOps < MaxToolOps /\ \E r \in ToolRequests : Op("disableTool", r[1], r[2], disableTool(r[1], r[2]))

SpecToggle == InitToggle /\ [][NextToggle]_vars

(***************************************************************************)
(* SpecSse: the HTTP/SSE transport over the same two plugins:              *)
(* GET /sse, POST /message, GET /health, the close of a connection, stop() *)
(* and the manager's switches, whose events reach every MCP server.        *)
(***************************************************************************)
\* `client-${++this.clientIdCounter}`
ClientId(n) == "client-" \o ToString(n)

\* what is written on a response stream: `event: <event>\ndata: <data>\n\n`
EndpointEvent(clientId) ==
    [event |-> "endpoint", data |-> "http://localhost:3000/message?clientId=" \o clientId,
     tools |-> <<>>]

ListChanged == [event |-> "message", data |-> "notifications/tools/list_changed", tools |-> <<>>]

ListResult(ps) == [event |-> "message", data |-> "result", tools |-> Listing(ps)]

\* the bodies a POST carries, and JSON.parse of them: a value, or a SyntaxError
ListRequest == "{\"jsonrpc\":\"2.0\",\"id\":1,\"method\":\"tools/list\"}"

Initialized == "{\"jsonrpc\":\"2.0\",\"method\":\"notifications/initialized\"}"

Bodies == {ListRequest, Initialized, "{\"jsonrpc\":"}

JSONparse(body) ==
    CASE body = ListRequest -> [ok |-> TRUE, method |-> "tools/list"]
      [] body = Initialized -> [ok |-> TRUE, method |-> "notifications/initialized"]
      [] OTHER -> [ok |-> FALSE, method |-> ""]

\* transport.send: written unless the response has ended
send(s, frame) == IF s.ended THEN s ELSE [s EXCEPT !.stream = Append(@, frame)]

\* server.notification: it rejects with `Not connected` once the transport has closed
notification(s, frame) == IF s.connected THEN send(s, frame) ELSE s

\* the notifyToolsChanged listeners without the one on stateChange
ListenedNoStateChange == {"pluginEnabled", "pluginDisabled"}

\* the events createMcpServer registers notifyToolsChanged on
Listened == {"pluginEnabled", "pluginDisabled", "stateChange"}

RECURSIVE notifyToolsChanged(_, _)
\* the listeners of every server created run once for each listened event of es
notifyToolsChanged(ss, es) ==
    IF es = <<>> THEN ss
    ELSE notifyToolsChanged(
            IF Head(es).type \in Listened
            THEN [i \in 1..Len(ss) |-> [k |-> ss[i].k, v |-> notification(ss[i].v, ListChanged)]]
            ELSE ss,
            Tail(es))

\* the session's MCP server receives a message: a tools/list request is
\* answered on the transport in place when the request was received
onmessage(s, method, ps) ==
    LET got == [s EXCEPT !.inbox = Append(@, method)] IN
    IF method = "tools/list" /\ s.connected THEN send(got, ListResult(ps)) ELSE got

\* GET /sse: handleSseConnection, with the microtasks of server.connect
handleSseConnection ==
    /\ listening
    /\ Len(assigned) < MaxSessions
    /\ LET clientId == ClientId(clientIdCounter + 1) IN
          /\ clientIdCounter' = clientIdCounter + 1
          /\ assigned' = Append(assigned, clientId)
          /\ listeners' = Append(listeners, clientId)
          /\ sessions' = MapSet(sessions, clientId,
                 [ended |-> FALSE, connected |-> TRUE, closed |-> FALSE, messageHandler |-> TRUE,
                  stream |-> <<EndpointEvent(clientId)>>, inbox |-> <<>>])
          /\ clients' = MapSet(clients, clientId, clientId)
          /\ reported' = Len(clients')
    /\ UNCHANGED <<posts, healthResp, listening>>

\* req.on('close') of a GET /sse request
handleSseClose(clientId) ==
    /\ MapHas(sessions, clientId)
    /\ ~MapGet(sessions, clientId).closed
    /\ clients' = MapDelete(clients, clientId)
    /\ sessions' = MapSet(sessions, clientId,
           [MapGet(sessions, clientId) EXCEPT !.closed = TRUE, !.connected = FALSE])
    /\ reported' = Len(clients')
    /\ UNCHANGED <<clientIdCounter, posts, healthResp, listening, assigned,
                   listeners>>

\* handleMessage answering every valid body 202 to the first client of the map
handleMessageEndFirst(i) ==
    /\ posts[i].st = "reading"
    /\ LET message == JSONparse(posts[i].body)
           first == IF clients = <<>> THEN posts[i].client ELSE clients[1].k
       IN IF message.ok
          THEN /\ sessions' = MapSet(sessions, first,
                      onmessage(MapGet(sessions, first), message.method, plugins))
               /\ posts' = [posts EXCEPT ![i].st = "done", ![i].status = 202]
          ELSE /\ posts' = [posts EXCEPT ![i].st = "done", ![i].status = 400]
               /\ UNCHANGED sessions
    /\ UNCHANGED <<clients, clientIdCounter, reported, healthResp, listening, assigned,
                   listeners>>

\* POST /message: handleMessage up to the reading of the body
handleMessage(clientId, body) ==
    /\ listening
    /\ \E i \in 1..MaxPosts :
          /\ posts[i].st = "free"
          /\ \A j \in 1..(i - 1) : posts[j].st # "free"
          /\ posts' = [posts EXCEPT ![i] =
                 IF clientId = ""
                 THEN [st |-> "done", clientId |-> clientId, body |-> body,
                       client |-> NoClient, status |-> 400]
                 ELSE IF ~MapHas(clients, clientId)
                 THEN [st |-> "done", clientId |-> clientId, body |-> body,
                       client |-> NoClient, status |-> 404]
                 ELSE [st |-> "reading", clientId |-> clientId, body |-> body,
                       client |-> MapGet(clients, clientId), status |-> 0]]
    /\ UNCHANGED <<clients, clientIdCounter, sessions, reported, healthResp, listening, assigned,
                   listeners>>

\* req.on('end') of a POST /message request
handleMessageEnd(i) ==
    /\ posts[i].st = "reading"
    /\ LET message == JSONparse(posts[i].body)
           client == MapGet(sessions, posts[i].client)
       IN IF message.ok
          THEN /\ sessions' = IF client.messageHandler
                              THEN MapSet(sessions, posts[i].client,
                                          onmessage(client, message.method, plugins))
                              ELSE sessions
               /\ posts' = [posts EXCEPT ![i].st = "done", ![i].status = 202]
          ELSE /\ posts' = [posts EXCEPT ![i].st = "done", ![i].status = 400]
               /\ UNCHANGED sessions
    /\ UNCHANGED <<clients, clientIdCounter, reported, healthResp, listening, assigned,
                   listeners>>

\* GET /health
health ==
    /\ listening
    /\ healthResp' = [asked |-> TRUE, clients |-> Len(clients)]
    /\ UNCHANGED <<clients, clientIdCounter, sessions, posts, reported, listening, assigned,
                   listeners>>

\* SseMcpServer.stop
stop ==
    /\ listening
    /\ sessions' = [i \in 1..Len(sessions) |->
           IF MapHas(clients, sessions[i].k)
           THEN [k |-> sessions[i].k, v |-> [sessions[i].v EXCEPT !.ended = TRUE]]
           ELSE sessions[i]]
    /\ clients' = <<>>
    /\ listening' = FALSE
    /\ UNCHANGED <<clientIdCounter, posts, reported, healthResp, assigned, listeners>>

\* a request of the transport: the manager and the registry are untouched
Http(A) == A /\ UNCHANGED <<pmVars, logVars, regVars, trail, origin, proxyVars, procVars>>

\* an operation of the manager: its events reach the listeners of every server
Emits(A) ==
    /\ A
    /\ sessions' = notifyToolsChanged(sessions, emitted')
    /\ UNCHANGED <<clients, clientIdCounter, posts, reported, healthResp, listening, assigned,
                   listeners>>
    /\ UNCHANGED <<regVars, trail, origin, proxyVars, procVars>>

ClientParams == {ClientId(1), ClientId(2), "client-0", ""}

InitSseServer == InitCall

\* the requests of the transport
NextSse ==
    \/ Http(handleSseConnection)
    \/ Http(\E n \in 1..MaxSessions : handleSseClose(ClientId(n)))
    \/ Http(\E c \in ClientParams, b \in Bodies : handleMessage(c, b))
    \/ Http(\E i \in 1..MaxPosts : handleMessageEnd(i))
    \/ Http(health)
    \/ Http(stop)

SpecSse == InitSseServer /\ [][NextSse]_vars

(***************************************************************************)
(* SpecServe: the transport as the `serve` and `stop` verbs run it: after  *)
(* stopSseServer a later startSseServer makes a new SseMcpServer.          *)
(***************************************************************************)
\* startSseServer after the running server was stopped: stop() has resolved,
\* so every connection of the old server has closed; new SseMcpServer(options)
\* and start()
startSseServer ==
    /\ ~listening
    /\ \A i \in 1..Len(sessions) : sessions[i].v.closed
    /\ \A i \in 1..MaxPosts : posts[i].st # "reading"
    /\ clients' = <<>>
    /\ clientIdCounter' = 0
    /\ listening' = TRUE
    /\ UNCHANGED <<sessions, posts, reported, healthResp, assigned, listeners>>

NextServe ==
    \/ Http(handleSseConnection)
    \/ Http(\E n \in 1..MaxSessions : handleSseClose(ClientId(n)))
    \/ Http(\E c \in ClientParams, b \in Bodies : handleMessage(c, b))
    \/ Http(\E i \in 1..MaxPosts : handleMessageEnd(i))
    \/ Http(health)
    \/ Http(stop)
    \/ Http(startSseServer)

SpecServe == InitSseServer /\ [][NextServe]_vars

(***************************************************************************)
(* SpecNotify: MCP sessions over SSE while the manager's switches          *)
(* are operated: connections open and close, tools/list is posted to them, *)
(* and every event of the manager runs the listeners of every server.      *)
(***************************************************************************)
SseToolRequests == {<<"fs", "danger">>, <<"fs_x", "read">>}

NextNotify ==
    \/ Http(handleSseConnection)
    \/ Http(\E n \in 1..MaxSessions : handleSseClose(ClientId(n)))
    \/ Http(\E n \in 1..MaxSessions : handleMessage(ClientId(n), ListRequest))
    \/ Http(\E i \in 1..MaxPosts : handleMessageEnd(i))
    \/ Emits(toggles + toolOps < MaxToggles /\ \E n \in RegNames : enablePlugin(n))
    \/ Emits(toggles + toolOps < MaxToggles /\ \E n \in RegNames : disablePlugin(n))
    \/ Emits(\E h \in hooks, ok \in BOOLEAN : pluginHookSettled(h, ok))
    \/ Emits(toggles + toolOps < MaxToggles /\ \E r \in SseToolRequests : enableTool(r[1], r[2]))
    \/ Emits(toggles + toolOps < MaxToggles /\ \E r \in SseToolRequests : disableTool(r[1], r[2]))

SpecNotify == InitSseServer /\ [][NextNotify]_vars

(***************************************************************************)
(* The tool-call logger on its own: a logger constructed on a fresh state  *)
(* directory, its asynchronous initialisation, its subscribers and its     *)
(* file writes                                                             *)
(***************************************************************************)
MaxLogs == 3

MaxResets == 1

MaxCapacity == 2

\* ToolCallLogger.initialize up to its first await: mkdir settled
initMkdir(ok) ==
    /\ initPhase = "mkdir"
    /\ IF ok
       THEN /\ logsDir' = TRUE
            /\ initPhase' = "load"
       ELSE /\ initPhase' = "done"
            /\ UNCHANGED logsDir
    /\ UNCHANGED <<history, stats, maxSize, subscribers, delivered, logThrew, logCalls,
                   counted, initialized, saveStatsTimeout, writeQueue, writing, journal,
                   statsFile, lost, resets>>

\* ToolCallLogger.initialize after loadStats() settled
initLoaded ==
    /\ initPhase = "load"
    /\ stats' = loadStats
    /\ initialized' = TRUE
    /\ initPhase' = "done"
    /\ UNCHANGED <<history, maxSize, subscribers, delivered, logThrew, logCalls, counted,
                   saveStatsTimeout, writeQueue, writing, logsDir, journal, statsFile, lost,
                   resets>>

\* ToolCallLogger.subscribe: Set.add
subscribe(s) ==
    /\ subscribers' = IF s \in Range(subscribers) THEN subscribers
                      ELSE Append(subscribers, s)
    /\ UNCHANGED <<history, stats, maxSize, delivered, logThrew, logCalls, counted,
                   initPhase, initialized, saveStatsTimeout, writeQueue, writing, logsDir,
                   journal, statsFile, lost, resets>>

\* the function subscribe() returned: Set.delete
unsubscribe(s) ==
    /\ subscribers' = SelectSeq(subscribers, LAMBDA x : x # s)
    /\ UNCHANGED <<history, stats, maxSize, delivered, logThrew, logCalls, counted,
                   initPhase, initialized, saveStatsTimeout, writeQueue, writing, logsDir,
                   journal, statsFile, lost, resets>>

\* the callback of saveStatsDebounced's timer: chain the save on the write queue
saveStatsTimer ==
    /\ saveStatsTimeout
    /\ saveStatsTimeout' = FALSE
    /\ writeQueue' = Append(writeQueue, StatsTask)
    /\ UNCHANGED <<history, stats, maxSize, subscribers, delivered, logThrew, logCalls,
                   counted, initPhase, initialized, writing, logsDir, journal, statsFile, lost,
                   resets>>

\* the promise chain: the next task starts once the one before it has settled
writeQueueRuns ==
    /\ writeQueue # <<>>
    /\ ~\E i \in 1..Len(writing) : writing[i].via = "queue"
    /\ writing' = Append(writing, Write(Head(writeQueue), "queue",
                           IF Head(writeQueue).kind = "stats" THEN stats
                           ELSE createEmptyStats))
    /\ writeQueue' = Tail(writeQueue)
    /\ UNCHANGED <<history, stats, maxSize, subscribers, delivered, logThrew, logCalls,
                   counted, initPhase, initialized, saveStatsTimeout, logsDir, journal,
                   statsFile, lost, resets>>

\* appendFile / writeFile settled; it fails when the directory is missing, or on an I/O error
writeSettled(i, ok) ==
    /\ i \in 1..Len(writing)
    /\ ok => logsDir
    /\ writing' = [k \in 1..(Len(writing) - 1) |-> IF k < i THEN writing[k]
                                                    ELSE writing[k + 1]]
    /\ journal' = IF ok /\ writing[i].kind = "append"
                  THEN Append(journal, writing[i].line) ELSE journal
    /\ statsFile' = IF ok /\ writing[i].kind = "stats"
                    THEN writing[i].totals ELSE statsFile
    /\ lost' = IF ~ok /\ writing[i].kind = "append"
               THEN lost \cup {writing[i].line} ELSE lost
    /\ UNCHANGED <<history, stats, maxSize, subscribers, delivered, logThrew, logCalls,
                   counted, initPhase, initialized, saveStatsTimeout, writeQueue, logsDir,
                   resets>>

\* ToolCallLogger.resetStats up to its await: empty stats, writeFile started
resetStats ==
    /\ stats' = createEmptyStats
    /\ counted' = 0
    /\ resets' = resets + 1
    /\ writing' = Append(writing, Write(StatsTask, "direct", createEmptyStats))
    /\ UNCHANGED <<history, maxSize, subscribers, delivered, logThrew, logCalls, initPhase,
                   initialized, saveStatsTimeout, writeQueue, logsDir, journal, statsFile, lost>>

\* the entry of the n-th call logged directly on the logger
Entry(n, success) ==
    LogEntry(n, "cli", "pkgA_echo", success, IF success THEN NoError ELSE "boom")

\* a step of the logger leaves the manager, the registry and the transport alone
Logs(A) ==
    /\ A
    /\ UNCHANGED <<plugins, loads, loadsUsed, unloads, unloadsUsed, hooks, initLog, emitted,
                   toggles, calls, invocations, listResp, thrown, destroyLog, toolOps>>
    /\ UNCHANGED <<regVars, trail, origin, sseVars, proxyVars, procVars>>

\* new ToolCallLogger(capacity) on a fresh state directory
Constructed ==
    /\ plugins = <<>>
    /\ loads = [i \in 1..MaxLoads |-> FreeLoad]
    /\ loadsUsed = 0
    /\ unloads = [n \in RegNames |-> 0]
    /\ unloadsUsed = 0
    /\ hooks = {}
    /\ initLog = <<>>
    /\ emitted = <<>>
    /\ toggles = 0
    /\ calls = [i \in 1..MaxCalls |-> FreeCall]
    /\ invocations = <<>>
    /\ listResp = [listed |-> FALSE, tools |-> <<>>]
    /\ thrown = NoError
    /\ destroyLog = <<>>
    /\ toolOps = 0
    /\ trail = <<>>
    /\ origin = <<>>
    /\ InitSse
    /\ InitReg
    /\ InitProxy
    /\ InitProc
    /\ history = <<>>
    /\ stats = createEmptyStats
    /\ subscribers = <<>>
    /\ delivered = <<>>
    /\ logThrew = FALSE
    /\ logCalls = 0
    /\ counted = 0
    /\ initPhase = "mkdir"
    /\ initialized = FALSE
    /\ saveStatsTimeout = FALSE
    /\ writeQueue = <<>>
    /\ writing = <<>>
    /\ logsDir = FALSE
    /\ journal = <<>>
    /\ statsFile = NoFile
    /\ lost = {}
    /\ resets = 0

InitLogger ==
    /\ Constructed
    /\ maxSize \in 1..MaxCapacity

NextLogger ==
    \/ \E ok \in BOOLEAN : Logs(initMkdir(ok))
    \/ Logs(initLoaded)
    \/ \E s \in Subscribers : Logs(subscribe(s))
    \/ \E s \in Subscribers : Logs(unsubscribe(s))
    \/ \E success \in BOOLEAN :
         logCalls < MaxLogs /\ Logs(loggerLog(Entry(logCalls + 1, success)))
    \/ resets < MaxResets /\ Logs(resetStats)

SpecLogger == InitLogger /\ [][NextLogger]_vars

MaxAppends == 2

\* the logger's file writes: no subscribers, the default capacity
InitJournal ==
    /\ Constructed
    /\ maxSize = DEFAULT_MAX_SIZE

NextJournal ==
    \/ \E ok \in BOOLEAN : Logs(initMkdir(ok))
    \/ Logs(initLoaded)
    \/ \E success \in BOOLEAN :
         logCalls < MaxAppends /\ Logs(loggerLog(Entry(logCalls + 1, success)))
    \/ Logs(saveStatsTimer)
    \/ Logs(writeQueueRuns)
    \/ \E i \in 1..(MaxAppends + MaxResets), ok \in BOOLEAN : Logs(writeSettled(i, ok))
    \/ resets < MaxResets /\ Logs(resetStats)

SpecJournal == InitJournal /\ [][NextJournal]_vars

(***************************************************************************)
(* Proxy plugin: src/packages/plugin-proxy/src/mcp-client.ts, index.ts     *)
(***************************************************************************)
\* McpClient.connect up to the await in connectStdio: the transport and the client
\* are created and client.connect(transport) is started
connect ==
    /\ conn.pc = "idle"
    /\ IF mcp.connected
       THEN UNCHANGED <<mcp, children, conn>>
       ELSE IF config.url \/ config.command
       THEN LET id == Len(children) + 1 IN
            /\ mcp' = [mcp EXCEPT !.lastError = NoError, !.transport = id, !.client = id]
            /\ children' = Append(children, "open")
            /\ conn' = [pc |-> "handshake", child |-> id]
       ELSE /\ mcp' = [mcp EXCEPT !.lastError = "No connection method specified"]
            /\ UNCHANGED <<children, conn>>
    /\ UNCHANGED <<disc, config>>

\* client.connect(transport) settled; the SDK client closes itself when the handshake
\* fails; on success refreshTools() starts client.listTools()
connectSettled(ok) ==
    /\ conn.pc = "handshake"
    /\ ok => children[conn.child] = "open"
    /\ IF ~ok
       THEN /\ children' = [children EXCEPT ![conn.child] =
                              IF @ = "open" THEN "closed" ELSE @]
            /\ mcp' = [mcp EXCEPT !.lastError = "Connection closed"]
            /\ conn' = [pc |-> "idle", child |-> 0]
       ELSE IF mcp.client = 0
       THEN /\ mcp' = [mcp EXCEPT !.lastError = "Not connected"]
            /\ conn' = [pc |-> "idle", child |-> 0]
            /\ UNCHANGED children
       ELSE /\ conn' = [conn EXCEPT !.pc = "listing"]
            /\ UNCHANGED <<mcp, children>>
    /\ UNCHANGED <<disc, config>>

\* client.listTools() settled: the tools are stored and connected is set, or the
\* error is kept in lastError
listToolsSettled(ok) ==
    /\ conn.pc = "listing"
    /\ ok => children[conn.child] = "open"
    /\ mcp' = IF ok THEN [mcp EXCEPT !.tools = ChildTools, !.connected = TRUE]
              ELSE [mcp EXCEPT !.lastError = "Request failed"]
    /\ conn' = [pc |-> "idle", child |-> 0]
    /\ UNCHANGED <<children, disc, config>>

\* client.close() / transport.close(): the pair is closed, the subprocess killed
close(ch, id) ==
    IF id # 0 /\ ch[id] = "open" THEN [ch EXCEPT ![id] = "closed"] ELSE ch

\* the end of disconnect(): kill childProcess (never assigned), clear the tools
disconnectEnd(m) == [m EXCEPT !.tools = <<>>, !.connected = FALSE]

\* McpClient.disconnect up to its first await
disconnect ==
    /\ disc.pc = "idle"
    /\ IF mcp.client # 0
       THEN /\ children' = close(children, mcp.client)
            /\ disc' = [pc |-> "client", wasConnected |-> mcp.connected]
            /\ UNCHANGED mcp
       ELSE IF mcp.transport # 0
       THEN /\ children' = close(children, mcp.transport)
            /\ disc' = [pc |-> "transport", wasConnected |-> mcp.connected]
            /\ UNCHANGED mcp
       ELSE /\ mcp' = disconnectEnd(mcp)
            /\ disc' = [pc |-> "idle", wasConnected |-> mcp.connected]
            /\ UNCHANGED children
    /\ UNCHANGED <<conn, config>>

\* disconnect() after await this.client.close()
disconnectClientClosed ==
    /\ disc.pc = "client"
    /\ IF mcp.transport # 0
       THEN /\ children' = close(children, mcp.transport)
            /\ mcp' = [mcp EXCEPT !.client = 0]
            /\ disc' = [disc EXCEPT !.pc = "transport"]
       ELSE /\ mcp' = disconnectEnd([mcp EXCEPT !.client = 0])
            /\ disc' = [disc EXCEPT !.pc = "idle"]
            /\ UNCHANGED children
    /\ UNCHANGED <<conn, config>>

\* disconnect() after await this.transport.close()
disconnectTransportClosed ==
    /\ disc.pc = "transport"
    /\ mcp' = disconnectEnd([mcp EXCEPT !.transport = 0])
    /\ disc' = [disc EXCEPT !.pc = "idle"]
    /\ UNCHANGED <<children, conn, config>>

\* the subprocess of a child exits on its own: its transport and client close;
\* McpClient registers no onclose or onerror callback
childExits(id) ==
    /\ id \in 1..Len(children)
    /\ children[id] = "open"
    /\ children' = [children EXCEPT ![id] = "exited"]
    /\ UNCHANGED <<mcp, conn, disc, config>>

\* the tools of the proxy plugin's getExports()
getExports == IF mcp.connected THEN mcp.tools ELSE <<>>

\* a step of the proxy client leaves everything else alone
Prx(A) == A /\ UNCHANGED <<pmVars, logVars, regVars, trail, origin, sseVars, procVars>>

\* the plugin's init(ctx): the configuration is taken as it is; the client is
\* created unless the configuration has neither a command nor a url
init(cfg) ==
    /\ ~config.set
    /\ config' = cfg
    /\ UNCHANGED <<mcp, children, conn, disc>>

\* mcpClient of the plugin instance is not null
HasClient == config.set /\ (config.command \/ config.url)

NextProxy ==
    \/ \E cfg \in ProxyConfigs : Prx(init(cfg))
    \/ HasClient /\ Len(children) < MaxConnects /\ Prx(connect)
    \/ \E ok \in BOOLEAN : Prx(connectSettled(ok))
    \/ \E ok \in BOOLEAN : Prx(listToolsSettled(ok))
    \/ HasClient /\ Prx(disconnect)
    \/ Prx(disconnectClientClosed)
    \/ Prx(disconnectTransportClosed)
    \/ \E id \in 1..MaxConnects : Prx(childExits(id))

SpecProxy == InitCall /\ [][NextProxy]_vars

(***************************************************************************)
(* SpecShutdown: the end of the process. The interactive command cleans up *)
(* after the UI has exited, `serve --mode sse` on SIGINT; tool calls are   *)
(* logged until then and the logger's timer and write queue keep running.  *)
(***************************************************************************)
\* PluginManager.destroyAll: the names are taken from the map
destroyAll ==
    /\ teardown.pc = "idle"
    /\ teardown' = [pc |-> IF plugins = <<>> THEN "done" ELSE "loop",
                    names |-> MapKeys(plugins), rest |-> MapKeys(plugins), called |-> <<>>]
    /\ UNCHANGED pmVars

\* destroyAll's loop: unloadPlugin(name) is called and awaits plugin.destroy()
destroyAllUnload ==
    /\ teardown.pc = "loop"
    /\ LET name == Head(teardown.rest) IN
        IF MapHas(plugins, name)
        THEN /\ unloads' = [unloads EXCEPT ![name] = @ + 1]
             /\ destroyLog' = Append(destroyLog, [plugin |-> MapGet(plugins, name).plugin,
                                                  iid |-> MapGet(plugins, name).iid])
             /\ thrown' = NoError
             /\ teardown' = [teardown EXCEPT !.pc = "await", !.called = Append(@, name)]
        ELSE /\ thrown' = "Plugin not found: " \o name
             /\ teardown' = [teardown EXCEPT !.pc = "rejected"]
             /\ UNCHANGED <<unloads, destroyLog>>
    /\ emitted' = <<>>
    /\ UNCHANGED <<plugins, loads, loadsUsed, unloadsUsed, hooks, initLog, toggles,
                   calls, history, stats, invocations, listResp, toolOps>>

\* the awaited unloadPlugin settled: the loop goes on, or destroyAll rejects
destroyAllUnloaded(destroyOk) ==
    /\ teardown.pc = "await"
    /\ unloadPluginDestroyed(Head(teardown.rest), destroyOk)
    /\ teardown' = IF destroyOk
                   THEN [teardown EXCEPT !.rest = Tail(@),
                            !.pc = IF Tail(teardown.rest) = <<>> THEN "done" ELSE "loop"]
                   ELSE [teardown EXCEPT !.pc = "rejected"]

\* stopSseServer: stop() of the running server, if any
stopSseServer == IF listening THEN stop ELSE UNCHANGED sseVars

\* console.error
consoleError(text) == [fd |-> "stderr", text |-> text]

\* the action of the command the process was started with, its plugins loaded
action(mode) ==
    /\ proc.pc = "start"
    /\ proc' = [mode |-> mode, pc |-> "running"]
    /\ UNCHANGED <<pmVars, sseVars, teardown, out>>

\* the interactive action after waitUntilExit(): pluginManager.destroyAll() is awaited
cleanup ==
    /\ proc.mode = "interactive" /\ proc.pc = "running"
    /\ destroyAll
    /\ proc' = [proc EXCEPT !.pc = "destroying"]
    /\ UNCHANGED <<sseVars, out>>

\* the interactive action after destroyAll(): stopSseServer(), and the action returns
cleanupDestroyed ==
    /\ proc.mode = "interactive" /\ proc.pc = "destroying"
    /\ teardown.pc = "done"
    /\ stopSseServer
    /\ proc' = [proc EXCEPT !.pc = "returned"]
    /\ UNCHANGED <<pmVars, teardown, out>>

\* the process ends when nothing is pending: no listener, no timer, no write
exits ==
    /\ proc.pc = "returned"
    /\ ~listening /\ ~saveStatsTimeout /\ writeQueue = <<>> /\ writing = <<>>
    /\ proc' = [proc EXCEPT !.pc = "exited"]
    /\ UNCHANGED <<pmVars, sseVars, teardown, out>>

\* the SIGINT handler of `serve --mode sse`: stopSseServer() is awaited
SIGINT ==
    /\ proc.mode = "sse" /\ proc.pc = "running"
    /\ out' = Append(out, consoleError("\nShutting down..."))
    /\ stopSseServer
    /\ proc' = [proc EXCEPT !.pc = "stopped"]
    /\ UNCHANGED <<pmVars, teardown>>

\* the SIGINT handler after stopSseServer(): pluginManager.destroyAll() is awaited
sigintStopped ==
    /\ proc.mode = "sse" /\ proc.pc = "stopped"
    /\ destroyAll
    /\ proc' = [proc EXCEPT !.pc = "destroying"]
    /\ UNCHANGED <<sseVars, out>>

\* the SIGINT handler after destroyAll(): process.exit(0)
sigintDestroyed ==
    /\ proc.mode = "sse" /\ proc.pc = "destroying"
    /\ teardown.pc = "done"
    /\ proc' = [proc EXCEPT !.pc = "exited"]
    /\ UNCHANGED <<pmVars, sseVars, teardown, out>>

\* a step of the process or of destroyAll leaves the logger's files alone
Proc(A) == A /\ UNCHANGED <<logVars, regVars, trail, origin, proxyVars>>

NextShutdown ==
    \/ \E mode \in {"interactive", "sse"} : Proc(action(mode))
    \/ \E success \in BOOLEAN :
         /\ proc.pc = "running" /\ logCalls < MaxCalls
         /\ Logs(loggerLog(Entry(logCalls + 1, success)))
    \/ proc.pc # "exited" /\ Logs(saveStatsTimer)
    \/ proc.pc # "exited" /\ Logs(writeQueueRuns)
    \/ \E i \in 1..MaxCalls, ok \in BOOLEAN : proc.pc # "exited" /\ Logs(writeSettled(i, ok))
    \/ Proc(cleanup)
    \/ Proc(cleanupDestroyed)
    \/ Proc(exits)
    \/ Proc(SIGINT)
    \/ Proc(sigintStopped)
    \/ Proc(sigintDestroyed)
    \/ /\ proc.pc # "exited" /\ Proc(destroyAllUnload)
       /\ UNCHANGED <<sseVars, proc, out>>
    \/ \E ok \in BOOLEAN :
         /\ proc.pc # "exited" /\ Proc(destroyAllUnloaded(ok))
         /\ UNCHANGED <<sseVars, proc, out>>

SpecShutdown == InitCall /\ [][NextShutdown]_vars

(***************************************************************************)
(* SpecStdio: `serve --mode stdio`. The action loads the configured        *)
(* plugins one after the other, starts the stdio server and answers        *)
(* tools/call requests; standard output is the MCP transport.              *)
(***************************************************************************)
\* createPluginContext(...).log: console.log(`[${pluginName}] ${message}`)
ctxLog(pluginName, message) ==
    [fd |-> "stdout", text |-> "[" \o pluginName \o "] " \o message]

\* what the plugin's init(ctx) passes to ctx.log
InitMessages(pkg) ==
    IF pkg = "pkgProxy" THEN <<"Connected to MCP server">> ELSE <<"Plugin initialized">>

\* the JSON-RPC message the stdio transport writes for the result of a tools/call
Frame(resp) ==
    [fd |-> "stdout",
     text |-> "{\"jsonrpc\":\"2.0\",\"id\":1,\"result\":{\"content\":[{\"type\":\"text\",\"text\":\""
              \o resp.text \o "\"}]" \o (IF resp.isError THEN ",\"isError\":true" ELSE "")
              \o "}}"]

\* a step of the loading loop of the serve action, with what it writes: the
\* messages of the init it calls, and the line about the load that settled
Loading(A) ==
    /\ proc.pc = "start"
    /\ A
    /\ LET inits == IF Len(initLog') > Len(initLog)
                    THEN LET c == initLog'[Len(initLog')] IN
                         [i \in 1..Len(InitMessages(c.plugin)) |->
                             ctxLog(c.ctx, InitMessages(c.plugin)[i])]
                    ELSE <<>>
           settled == {id \in 1..MaxLoads : loads[id].st # "done" /\ loads'[id].st = "done"}
           lines == IF settled = {} THEN <<>>
                    ELSE LET l == loads'[CHOOSE id \in settled : TRUE] IN
                         IF l.result.ok
                         THEN <<consoleError("Loaded plugin: " \o l.name)>>
                         ELSE <<consoleError("Failed to load plugin " \o l.name \o ": "
                                             \o l.result.message)>>
       IN out' = out \o inits \o lines
    /\ UNCHANGED <<regVars, trail, origin, sseVars, proxyVars, teardown, proc>>

\* the serve action after the loop: console.error, startStdioServer
startStdioServer ==
    /\ proc.pc = "start"
    /\ \A id \in 1..MaxLoads : loads[id].st \in {"free", "done"}
    /\ out' = Append(out, consoleError("Starting MCP server in stdio mode..."))
    /\ proc' = [mode |-> "stdio", pc |-> "running"]
    /\ UNCHANGED <<pmVars, logVars, regVars, trail, origin, sseVars, proxyVars, teardown>>

\* a step of the tools/call handler of the stdio server; the result is
\* written to standard output when the call is done
Answers(A) ==
    /\ proc.mode = "stdio" /\ proc.pc = "running"
    /\ A
    /\ LET done == {id \in DOMAIN calls : calls[id].st # "done" /\ calls'[id].st = "done"}
       IN out' = IF done = {} THEN out
                 ELSE Append(out, Frame(calls'[CHOOSE id \in done : TRUE].resp))
    /\ origin' = IF NextCallId' # NextCallId THEN Append(origin, McpClientId) ELSE origin
    /\ UNCHANGED <<regVars, trail, sseVars, proxyVars, teardown, proc>>

NextStdio ==
    \/ \E r \in LoadRequests :
         /\ \A id \in 1..MaxLoads : loads[id].st \in {"free", "done"}
         /\ Loading(loadPlugin(r[1], r[2]))
    \/ \E id \in 1..MaxLoads : Loading(loadPluginImported(id))
    \/ \E id \in 1..MaxLoads, ok \in BOOLEAN : Loading(loadPluginInit(id, ok))
    \/ startStdioServer
    \/ \E t \in McpRequests : Answers(toolsCall(t))
    \/ \E id \in DOMAIN calls : \E o \in HandlerOutcomes(calls[id].handler) :
         Answers(toolsCallSettled(id, o))

SpecStdio == Init /\ [][NextStdio]_vars

(***************************************************************************)
(* Properties of the plugin manager and of the tool dispatchers            *)
(***************************************************************************)
\* the <<plugin, tool>> pairs the specification makes visible
VisiblePairs ==
    {pt \in RegNames \X {"x_read", "danger", "read"} :
        /\ MapHas(plugins, pt[1])
        /\ pt[2] \in Range(PluginTools(MapGet(plugins, pt[1]).plugin))
        /\ MapGet(plugins, pt[1]).enabled
        /\ pt[2] \notin MapGet(plugins, pt[1]).disabledTools}

\* the log entries and the handler invocations of one tool call
EntriesOf(id) == SelectSeq(history, LAMBDA e : e.call = id)

InvocationsOf(id) == SelectSeq(invocations, LAMBDA v : v.call = id)

\* C1, on getMcpTools: a tool t of a loaded plugin P has an entry in the
\* visible-tool list exactly when P is enabled and t is not in P's disabled
\* set, and the entry is named "<P>_<t>"
C1_Entries ==
    LET tools == getMcpTools(plugins) IN
    /\ \A i \in 1..Len(plugins) :
          \A t \in Range(PluginTools(plugins[i].v.plugin)) :
             (\E j \in 1..Len(tools) :
                 /\ tools[j].plugin = plugins[i].k
                 /\ tools[j].handler = <<plugins[i].v.plugin, t>>
                 /\ tools[j].name = plugins[i].k \o "_" \o t)
             <=> (plugins[i].v.enabled /\ t \notin plugins[i].v.disabledTools)
    /\ \A j \in 1..Len(tools) :
          /\ <<tools[j].plugin, tools[j].handler[2]>> \in VisiblePairs
          /\ tools[j].name = tools[j].plugin \o "_" \o tools[j].handler[2]
    /\ Len(tools) = Cardinality(VisiblePairs)

\* C1, on tools/list: the response computed by a tools/list request holds one
\* name "<P>_<t>" for each tool t visible at that time, and nothing else
C1_Listed ==
    listResp' # listResp =>
       /\ Len(listResp'.tools) = Cardinality(VisiblePairs)
       /\ \A pt \in VisiblePairs : pt[1] \o "_" \o pt[2] \in Range(listResp'.tools)
       /\ \A n \in Range(listResp'.tools) : \E pt \in VisiblePairs : n = pt[1] \o "_" \o pt[2]

\* C1: for every loaded plugin P and tool t it exposes, t appears in the
\* visible-tool list (getMcpTools, and therefore in a tools/list response
\* computed at that time) if and only if P is enabled and t is not in P's
\* disabled-tool set; when it appears its name is "<P>_<t>"
C1_VisibleIffEnabledAndUnmasked == []C1_Entries /\ [][C1_Listed]_vars

\* C1's case: a tools/list response computed while a tool of an enabled plugin
\* is masked and other tools are visible
C1_Witness ==
    /\ listResp.listed
    /\ listResp.tools # <<>>
    /\ Len(listResp.tools) = Cardinality(VisiblePairs)
    /\ \E i \in 1..Len(plugins) : plugins[i].v.enabled /\ plugins[i].v.disabledTools # {}

\* C2: a tools/call request naming a tool that is not in the visible-tool
\* list at that time invokes no handler, is answered with isError and the text
\* "Unknown tool: <name>", and adds exactly one log entry, success=false with
\* that error text
C2_UnknownToolRejected ==
    \A id \in 1..MaxCalls :
       (calls[id].via = "mcp" /\ ~calls[id].visible) =>
          /\ calls[id].st = "done"
          /\ calls[id].resp = [text |-> "Unknown tool: " \o calls[id].tool, isError |-> TRUE]
          /\ InvocationsOf(id) = <<>>
          /\ Len(EntriesOf(id)) = 1
          /\ ~EntriesOf(id)[1].success
          /\ EntriesOf(id)[1].error = "Unknown tool: " \o calls[id].tool
          /\ EntriesOf(id)[1].tool = calls[id].tool

\* C2's case: tools/call asked for the masked tool of an enabled plugin and
\* was answered
C2_Witness ==
    \E id \in 1..MaxCalls :
       /\ calls[id].via = "mcp"
       /\ calls[id].tool = "fs_danger"
       /\ ~calls[id].visible
       /\ calls[id].st = "done"
       /\ MapGet(plugins, "fs").enabled

\* C3 as stated: a `call <plugin> <tool>` whose tool is in the plugin's
\* disabled-tool set, or whose plugin is disabled, invokes no handler and
\* fails as an unknown tool
C3_CallRespectsMask ==
    \A id \in 1..MaxCalls :
       (calls[id].via = "cli" /\ ~calls[id].visible) =>
          /\ InvocationsOf(id) = <<>>
          /\ calls[id].st = "done"
          /\ calls[id].resp.isError

\* the handler of call id returned and its result was converted to text
Converted(id) == ~calls[id].outcome.threw /\ ~Stringify(calls[id].outcome.result).threw

\* the message of the error that ended call id: the handler's, or the conversion's
FailureOf(id) ==
    IF calls[id].outcome.threw THEN calls[id].outcome.message
    ELSE Stringify(calls[id].outcome.result).text

\* the prefix the call verb puts before its output
PrefixOf(id) == IF calls[id].via = "cli" THEN "[" \o calls[id].plugin \o "] " ELSE ""

C10_DuplicateStep ==
    \A id \in 1..MaxLoads :
       (/\ loads[id].st = "import"
        /\ loads'[id].st # "import"
        /\ ValidPlugin(loads[id].pkg)
        /\ MapHas(plugins, loads[id].name)) =>
          /\ loads'[id].st = "done"
          /\ loads'[id].result = LoadFailure(loads[id].name, loads[id].pkg,
                                             "Plugin already loaded: " \o loads[id].name)
          /\ initLog' = initLog
          /\ emitted' = <<>>
          /\ plugins' = plugins

\* C10, on the manager's state: a name maps to at most one instance
C10_UniqueNames ==
    \A i, j \in 1..Len(plugins) : plugins[i].k = plugins[j].k => i = j

\* C10: loadPlugin with a name already present in the manager fails, does not
\* call the new instance's init, emits no pluginLoaded and leaves the existing
\* instance unchanged; a name maps to at most one loaded instance
C10_DuplicateLoadFails == []C10_UniqueNames /\ [][C10_DuplicateStep]_vars

\* C10's case: a load of a name that was present has failed, the first
\* instance is still the one in the manager, and init was called once
C10_Witness ==
    \E id \in 1..MaxLoads :
       /\ loads[id].st = "done"
       /\ loads[id].result = LoadFailure("fs", "pkgA", "Plugin already loaded: fs")
       /\ MapHas(plugins, "fs")
       /\ MapGet(plugins, "fs").iid # id
       /\ Len(initLog) = 1

\* C11, the step at which plugin.init of a load rejects: the load rejects with
\* the plugin's message inside loadPlugin's wrapping, the manager's plugins are
\* as they were, and nothing is emitted
C11_InitFailureStep ==
    \A id \in 1..MaxLoads :
       (loads[id].st = "init" /\ loads'[id].st = "done" /\ ~loads'[id].result.ok) =>
          /\ loads'[id].result = Rejected("Failed to load plugin " \o loads[id].name \o " from "
                                          \o loads[id].pkg \o ": init failed")
          /\ plugins' = plugins
          /\ emitted' = <<>>

\* C11, on the manager's state: every instance held was stored by a load that
\* resolved, under that load's name
C11_NoPartialInstance ==
    \A i \in 1..Len(plugins) :
       /\ loads[plugins[i].v.iid].result.ok
       /\ loads[plugins[i].v.iid].name = plugins[i].k
       /\ loads[plugins[i].v.iid].pkg = plugins[i].v.plugin

\* C11, on later loads: a load is rejected as a duplicate only when the name is
\* held by an instance of a load that resolved, never because of a failed init
C11_DuplicateOnlyOfLoaded ==
    \A id \in 1..MaxLoads :
       (/\ loads[id].st = "import"
        /\ loads'[id].result = LoadFailure(loads[id].name, loads[id].pkg,
                                           "Plugin already loaded: " \o loads[id].name)) =>
          /\ MapHas(plugins, loads[id].name)
          /\ loads[MapGet(plugins, loads[id].name).iid].result.ok

\* C11: if a plugin's init rejects, loadPlugin rejects with an error that
\* preserves the original message and the manager is left as it was: no
\* instance is held under the name, no pluginLoaded is emitted, and a later
\* loadPlugin of the name is not rejected as a duplicate
C11_InitFailureClean ==
    /\ []C11_NoPartialInstance
    /\ [][C11_InitFailureStep /\ C11_DuplicateOnlyOfLoaded]_vars

\* C11's case: the first load of a name failed in init, and a later load of
\* the same name resolved and holds the name
C11_Witness ==
    /\ loads[1].st = "done"
    /\ loads[1].result = LoadFailure("fs", "pkgA", "init failed")
    /\ loads[2].st = "done"
    /\ loads[2].name = "fs"
    /\ loads[2].result.ok
    /\ MapHas(plugins, "fs")
    /\ MapGet(plugins, "fs").iid = 2

\* C12, loads: the step that resolves a load emits exactly one pluginLoaded
\* with the load's name; a step that rejects one emits nothing; pluginLoaded
\* is emitted by no other step
C12_LoadEvents ==
    /\ \A id \in 1..MaxLoads :
          (loads[id].st # "done" /\ loads'[id].st = "done") =>
             emitted' = IF loads'[id].result.ok
                        THEN <<[type |-> "pluginLoaded", name |-> loads[id].name]>>
                        ELSE <<>>
    /\ \A i \in 1..Len(emitted') :
          emitted'[i].type = "pluginLoaded" =>
             \E id \in 1..MaxLoads :
                loads[id].st = "init" /\ loads'[id].result.ok /\ loads[id].name = emitted'[i].name

\* C12, unloads: the step that completes an unload emits exactly one
\* pluginUnloaded with its name and the name is gone; an unload that fails
\* (no such plugin, or destroy() rejected) emits nothing; pluginUnloaded is
\* emitted by no other step
C12_UnloadEvents ==
    /\ \A n \in RegNames :
          unloads'[n] < unloads[n] =>
             IF thrown' = NoError
             THEN emitted' = <<[type |-> "pluginUnloaded", name |-> n]>> /\ ~MapHas(plugins', n)
             ELSE emitted' = <<>> /\ plugins' = plugins
    /\ (unloadsUsed' # unloadsUsed /\ thrown' # NoError) => emitted' = <<>> /\ plugins' = plugins
    /\ \A i \in 1..Len(emitted') :
          emitted'[i].type = "pluginUnloaded" =>
             unloads'[emitted'[i].name] < unloads[emitted'[i].name] /\ thrown' = NoError

\* C12: every successful loadPlugin emits exactly one pluginLoaded carrying
\* the registration name, every unload of a loaded plugin emits exactly one
\* pluginUnloaded with that name; a failed load or unload emits neither
C12_LifecycleEvents == [][C12_LoadEvents /\ C12_UnloadEvents]_vars

\* C12's case: a plugin was loaded and its unload has just completed
C12_Witness ==
    /\ emitted = <<[type |-> "pluginUnloaded", name |-> "fs"]>>
    /\ \E id \in 1..MaxLoads : loads[id].name = "fs" /\ loads[id].result.ok
    /\ ~MapHas(plugins, "fs")
    /\ Len(destroyLog) = 1

\* the calls of plugin.init made by load id
InitsOf(id) == SelectSeq(initLog, LAMBDA e : e.load = id)

\* C13 as stated: a load of a package whose default export is a factory calls
\* the factory and registers the Plugin it returns: unless the name is taken,
\* the load initialises that Plugin once, and when init resolves the name holds
\* the load's own instance; two names loaded from one such package hold two
\* distinct instances
C13_FactoryPerLoad ==
    /\ \A id \in 1..MaxLoads :
          (/\ loads[id].st = "done"
           /\ DefaultExport(loads[id].pkg) = "factory"
           /\ loads[id].result # LoadFailure(loads[id].name, loads[id].pkg,
                                             "Plugin already loaded: " \o loads[id].name)) =>
             Len(InitsOf(id)) = 1
    /\ \A i, j \in 1..Len(plugins) :
          (i # j /\ DefaultExport(plugins[i].v.plugin) = "factory") =>
             plugins[i].v.iid # plugins[j].v.iid

\* C17 as stated: a load that follows a load and an unload of the same name and
\* package registers a fresh Plugin: no Plugin object held by the manager is
\* one on which destroy() was called under an earlier registration
C17_ReloadFresh ==
    \A i \in 1..Len(plugins) :
       \A k \in 1..Len(destroyLog) :
          destroyLog[k].plugin = plugins[i].v.plugin => destroyLog[k].iid = plugins[i].v.iid

\* the operation a step has just performed
Done == trail'[Len(trail')]

\* the event enablePlugin / disablePlugin emits for the flag value v
ToggleEvent(n, v) == [type |-> IF v THEN "pluginEnabled" ELSE "pluginDisabled", name |-> n]

\* C14, a call that finds the flag already at its value changes nothing, calls
\* no hook and emits nothing
C14_NoOpWhenAlready ==
    \A v \in BOOLEAN :
       (/\ Done.op = (IF v THEN "enablePlugin" ELSE "disablePlugin")
        /\ MapHas(plugins, Done.name)
        /\ MapGet(plugins, Done.name).enabled = v) =>
          plugins' = plugins /\ hooks' = hooks /\ emitted' = <<>>

\* C14, events: a step changes the flag of a plugin exactly when it emits the
\* one matching event
C14_OneEventPerTransition ==
    \A n \in RegNames : \A v \in BOOLEAN :
       (/\ MapHas(plugins, n) /\ MapHas(plugins', n)
        /\ MapGet(plugins, n).enabled # v
        /\ MapGet(plugins', n).enabled = v) <=> (emitted' = <<ToggleEvent(n, v)>>)

\* C14, hooks: the hook is invoked only for a plugin whose flag differs from the
\* requested value and for which no invocation for that value is under way, and
\* the flag of a plugin with hooks changes only when such an invocation resolves
C14_OneHookPerTransition ==
    /\ \A h \in hooks' \ hooks :
          /\ MapHas(plugins, h.name) /\ MapGet(plugins, h.name).enabled # h.value
          /\ ~\E g \in hooks : g.name = h.name /\ g.value = h.value
    /\ \A n \in RegNames :
          (/\ MapHas(plugins, n) /\ MapHas(plugins', n)
           /\ HasHooks(MapGet(plugins, n).plugin)
           /\ MapGet(plugins, n).enabled # MapGet(plugins', n).enabled) =>
             \E h \in hooks \ hooks' : h.name = n /\ h.value = MapGet(plugins', n).enabled

\* C14 as stated: enablePlugin and disablePlugin are idempotent, and each
\* transition of the enabled flag invokes the optional hook exactly once and
\* emits exactly one pluginEnabled / pluginDisabled
C14_Idempotent ==
    [][Len(trail') > 0 =>
         C14_NoOpWhenAlready /\ C14_OneEventPerTransition /\ C14_OneHookPerTransition]_vars

\* the tools a loaded plugin exports, and its disabled-tool set
ToolsOf(ps, n) == Range(PluginTools(MapGet(ps, n).plugin))

MaskOf(ps, n) == MapGet(ps, n).disabledTools

\* C15, disableTool(P, t) on a loaded P: when t is a tool of P the set gains t
\* and one stateChange is emitted; otherwise the call fails as unknown tool,
\* the manager is unchanged and nothing is emitted
C15_DisableTool ==
    (Done.op = "disableTool" /\ MapHas(plugins, Done.name)) =>
       IF Done.tool \in ToolsOf(plugins, Done.name)
       THEN /\ thrown' = NoError
            /\ MaskOf(plugins', Done.name) = MaskOf(plugins, Done.name) \cup {Done.tool}
            /\ emitted' = <<[type |-> "stateChange", name |-> Done.name]>>
       ELSE /\ thrown' = "Tool not found: " \o Done.tool \o " in plugin " \o Done.name
            /\ plugins' = plugins
            /\ emitted' = <<>>

\* C15, enableTool(P, t) on a loaded P never fails, and leaves the set as it was
\* when t is not in it
C15_EnableTool ==
    (Done.op = "enableTool" /\ MapHas(plugins, Done.name)) =>
       /\ thrown' = NoError
       /\ MaskOf(plugins', Done.name) = MaskOf(plugins, Done.name) \ {Done.tool}
       /\ Done.tool \notin MaskOf(plugins, Done.name) => plugins' = plugins

\* C15: disableTool adds t and emits stateChange only if t is a tool of the
\* plugin and otherwise fails as unknown tool, changing and emitting nothing;
\* enableTool never fails for a loaded plugin and is a no-op on the set when t
\* is not in it
C15_ToolSwitches == [][Len(trail') > 0 => C15_DisableTool /\ C15_EnableTool]_vars

\* C15's case: an enableTool of a tool that was not masked, then a disableTool
\* of a name that is no tool of the plugin, which failed
C15_Witness ==
    /\ Len(trail) >= 2
    /\ LET e == trail[Len(trail) - 1]
           d == trail[Len(trail)]
       IN /\ e.op = "enableTool" /\ e.tool \notin MaskOf(e.before, e.name)
          /\ d.op = "disableTool" /\ d.tool \notin ToolsOf(d.before, d.name)
          /\ thrown = "Tool not found: " \o d.tool \o " in plugin " \o d.name

\* the last two operations were enableTool(P, t) then disableTool(P, t) on a
\* loaded plugin P
EnableThenDisable ==
    /\ Len(trail) >= 2
    /\ LET e == trail[Len(trail) - 1]
           d == trail[Len(trail)]
       IN /\ e.op = "enableTool" /\ d.op = "disableTool"
          /\ e.name = d.name /\ e.tool = d.tool
          /\ MapHas(e.before, e.name)

\* the manager's map before the first of the last two operations
Before2 == trail[Len(trail) - 1].before

\* tool t of plugin n is one tools/list shows: n is enabled, t is a tool of n
\* and not in its disabled-tool set
Shown(ps, n, t) ==
    /\ MapGet(ps, n).enabled
    /\ t \in ToolsOf(ps, n)
    /\ t \notin MaskOf(ps, n)

\* C16 as stated: enableTool(P, t) then disableTool(P, t) on a loaded plugin
\* returns the tools/list result to what it was before the two operations
C16_RoundTrip ==
    EnableThenDisable => Listing(plugins) = Listing(Before2)

\* C16, amended: enableTool(P, t) then disableTool(P, t) returns the tools/list
\* result to what it was before, when tools/list did not show t of P before the
\* two operations (t is in P's disabled-tool set, P is disabled, or t is no
\* tool of P)
C16_RoundTripOfHidden ==
    (EnableThenDisable /\ ~Shown(Before2, trail[Len(trail)].name, trail[Len(trail)].tool)) =>
       Listing(plugins) = Listing(Before2)

\* C16's case: a masked tool of an enabled plugin was enabled, which changed
\* the listing, and then disabled again
C16_Witness ==
    /\ EnableThenDisable
    /\ LET d == trail[Len(trail)] IN
          /\ MapGet(Before2, d.name).enabled
          /\ d.tool \in ToolsOf(Before2, d.name) \cap MaskOf(Before2, d.name)
          /\ Listing(d.before) # Listing(Before2)
          /\ thrown = NoError

(***************************************************************************)
(* Properties of the MCP sessions and of the HTTP/SSE transport            *)
(***************************************************************************)
\* the sessions that are live: those the transport holds
LiveSessions == Range(MapKeys(clients))

StreamOf(ss, id) == MapGet(ss, id).stream

\* a step of the manager: a call of one of its switches, or the settling of a hook
ManagerStep == <<toggles, toolOps, hooks>>' # <<toggles, toolOps, hooks>>

\* the events of es that change what tools/list shows
ChangeEvents(es) ==
    SelectSeq(es, LAMBDA e : e.type \in {"pluginEnabled", "pluginDisabled", "stateChange"})

\* C18, notification: a step of the manager writes, on the stream of every live
\* session, one notifications/tools/list_changed for each pluginEnabled,
\* pluginDisabled or stateChange it emits, and nothing else
C18_Notifies ==
    ManagerStep =>
       \A id \in LiveSessions :
          StreamOf(sessions', id) =
             StreamOf(sessions, id) \o [i \in 1..Len(ChangeEvents(emitted')) |-> ListChanged]

\* C18, listing: the tools/list result a live session received last, with no
\* list_changed after it, is the list of the tools visible now
C18_ListCurrent ==
    \A id \in LiveSessions :
       LET st == StreamOf(sessions, id) IN
       st[Len(st)].data = "result" =>
          st[Len(st)].tools = [i \in 1..Len(getMcpTools(plugins)) |-> getMcpTools(plugins)[i].name]

\* C18: whenever the manager emits pluginEnabled, pluginDisabled or stateChange
\* every live session sends notifications/tools/list_changed to its peer, and a
\* tools/list answered after the change shows the new visible tools
C18_ListChangedNotified == []C18_ListCurrent /\ [][C18_Notifies]_vars

\* C18's case: two live sessions were both notified of a change that made a
\* masked tool visible, and one of them then asked tools/list and got it
C18_Witness ==
    /\ Cardinality(LiveSessions) = 2
    /\ \A id \in LiveSessions :
          \E i \in 1..Len(StreamOf(sessions, id)) : StreamOf(sessions, id)[i] = ListChanged
    /\ \E id \in LiveSessions :
          LET st == StreamOf(sessions, id) IN
          /\ st[Len(st)].data = "result"
          /\ st[Len(st) - 1] = ListChanged
          /\ \E i \in 1..Len(st[Len(st)].tools) : st[Len(st)].tools[i] = "fs_danger"

\* the messages handed to the inbound handler of session id
InboxOf(ss, id) == MapGet(ss, id).inbox

SessionIds(ss) == Range(MapKeys(ss))

\* C19, one request: an id that names no live session is answered 404 at once;
\* a live id is answered when the body has been read: 400 when it is not valid
\* JSON, and 202 only if the parsed message was handed to the handler of the
\* session named by the id; no other session is handed anything
C19_Post(i) ==
    LET p == posts'[i]
        arrives == posts[i].st = "free"
    IN  /\ p.clientId # "" =>
              /\ (arrives /\ p.clientId \notin LiveSessions) => (p.st = "done" /\ p.status = 404)
              /\ (arrives /\ p.clientId \in LiveSessions) => (p.st = "reading" /\ sessions' = sessions)
              /\ (~arrives /\ ~JSONparse(p.body).ok) => (p.status = 400 /\ sessions' = sessions)
              /\ p.status = 202 =>
                    /\ JSONparse(p.body).ok
                    /\ InboxOf(sessions', p.clientId) =
                          Append(InboxOf(sessions, p.clientId), JSONparse(p.body).method)
              /\ p.st = "done" => p.status \in {202, 400, 404}
        /\ \A id \in SessionIds(sessions) \ {p.clientId} :
              InboxOf(sessions', id) = InboxOf(sessions, id)

\* C19, delivery: a handler receives a message only in the step that answers
\* 202 to a request carrying its session's id
C19_OnlyByPost ==
    \A id \in SessionIds(sessions) :
       InboxOf(sessions', id) # InboxOf(sessions, id) =>
          \E i \in 1..MaxPosts :
             posts[i].st = "reading" /\ posts[i].clientId = id /\ posts'[i].status = 202

\* C19: POST /message?clientId=<id> answers 404 for an id that names no live
\* session, 400 for a body that is not valid JSON, and 202 only when the parsed
\* message has been handed to the handler of the session named <id>; a message
\* never reaches another session
C19_PostRouting ==
    [][(\A i \in 1..MaxPosts : posts'[i] # posts[i] => C19_Post(i)) /\ C19_OnlyByPost]_vars

\* C19's case: with two live sessions a request for the second was answered
\* 202, the second session's handler has its message and the first has none
C19_Witness ==
    /\ LiveSessions = {ClientId(1), ClientId(2)}
    /\ \E i \in 1..MaxPosts : posts[i].status = 202 /\ posts[i].clientId = ClientId(2)
    /\ InboxOf(sessions, ClientId(2)) = <<"tools/list">>
    /\ InboxOf(sessions, ClientId(1)) = <<>>

\* the sessions whose SSE connection is open: the response has not been ended
\* and the request has not closed
OpenSessions ==
    {id \in SessionIds(sessions) : ~MapGet(sessions, id).ended /\ ~MapGet(sessions, id).closed}

\* C20, the callback: the count last reported is the number of open sessions
C20_ReportedIsOpen == reported = Cardinality(OpenSessions)

\* C20, GET /health answers the number of open sessions
C20_Health == healthResp' # healthResp => healthResp'.clients = Cardinality(OpenSessions)

\* C20, closing: the close of a connection removes that session and no other,
\* closes its transport and reports the count of the sessions still open
C20_Close ==
    \A id \in SessionIds(sessions) :
       (~MapGet(sessions, id).closed /\ MapGet(sessions', id).closed) =>
          /\ clients' = MapDelete(clients, id)
          /\ ~MapGet(sessions', id).connected
          /\ reported' = Cardinality(OpenSessions')

\* C20 as stated: the client count of GET /health and of the client-count
\* callback always equals the number of SSE sessions whose connection is open;
\* closing a connection removes exactly that session, closes its transport and
\* reports the decremented count
C20_ClientCount == []C20_ReportedIsOpen /\ [][C20_Health /\ C20_Close]_vars

\* C21 as stated: the clientId a GET /sse assigns differs from the clientId
\* of every other session, live or closed, and the first event on a session's
\* stream is the endpoint event carrying its clientId
C21_FreshClientId ==
    /\ \A i, j \in 1..Len(assigned) : i # j => assigned[i] # assigned[j]
    /\ \A id \in SessionIds(sessions) : StreamOf(sessions, id)[1] = EndpointEvent(id)

\* C38 as stated: the listeners the MCP servers registered on the plugin
\* manager are those of the live sessions, one per session for each listened
\* event: none belongs to a session that has closed
C38_ListenersOfLiveSessions ==
    /\ Len(listeners) = Len(clients)
    /\ \A i \in 1..Len(listeners) : MapHas(clients, listeners[i])

(***************************************************************************)
(* Properties of the tool-call log                                         *)
(***************************************************************************)
\* C22 as stated: every log entry carries the clientId of its caller: "cli"
\* for the call verb, "stdio" for the process-stdio session, and the session's
\* clientId for a call that arrived over an SSE session
C22_EntryNamesCaller ==
    \A k \in 1..Len(history) : history[k].clientId = origin[history[k].call]

\* the calls dispatched to a handler before call c on the same session and not
\* yet logged
Unlogged(c) ==
    {b \in 1..(c - 1) : /\ origin[b] = origin[c]
                        /\ \E k \in 1..Len(invocations) : invocations[k].call = b
                        /\ ~\E k \in 1..Len(history) : history[k].call = b}

\* call c was handed to a tool handler
Dispatched(c) == \E k \in 1..Len(invocations) : invocations[k].call = c

\* C23 as stated: the log entry of a tools/call is produced when its handler
\* has completed, and no tools/call is dispatched to a handler while an earlier
\* tools/call of the same session has no log entry yet
C23_LoggedBeforeNext ==
    /\ \A k \in 1..Len(history) :
          calls[history[k].call].via = "mcp" => calls[history[k].call].st = "done"
    /\ \A c \in DOMAIN calls :
          (calls[c].via = "mcp" /\ Dispatched(c)) => Unlogged(c) = {}

(***************************************************************************)
(* Properties of the tool-call logger                                      *)
(***************************************************************************)
\* C24: the history of a logger of capacity C never holds more than C entries;
\* after N > C log() calls it holds exactly C entries, in logging order, the
\* oldest of them being the (N-C+1)-th entry logged
C24_CircularBuffer ==
    /\ Len(history) <= maxSize
    /\ logCalls > maxSize =>
         /\ Len(history) = maxSize
         /\ \A i \in 1..maxSize : history[i].call = logCalls - maxSize + i

C24_Witness == maxSize > 1 /\ logCalls = maxSize + 1 /\ Len(history) = maxSize

\* C25 as stated: after N log() calls on a logger whose stats started empty
\* (fresh state directory, or the last resetStats), totals.calls = N and
\* totals.success + totals.errors = N, whatever the interleaving with the
\* logger's asynchronous initialisation
C25_StatsCountEveryCall ==
    /\ stats.calls = counted
    /\ stats.success + stats.errors = counted

\* the number of times subscriber s was called by the latest log()
Deliveries(d, s) == Cardinality({i \in 1..Len(d) : d[i] = s})

\* C26: log(entry) calls every subscriber attached at the time of the call
\* exactly once and no other; a subscriber that throws does not prevent the
\* delivery to the others, does not make log() throw, and does not prevent the
\* entry from entering the history and the stats
C26_Delivery ==
    [][logCalls' = logCalls + 1 =>
         /\ \A s \in Subscribers :
              Deliveries(delivered', s) = IF s \in Range(subscribers) THEN 1 ELSE 0
         /\ ~logThrew'
         /\ history'[Len(history')].call = logCalls'
         /\ stats'.calls = stats.calls + 1]_vars

C26_Witness == logCalls > 0 /\ delivered = <<"bad", "ui">>

\* the writes to stats.json in progress
StatsWrites == {i \in 1..Len(writing) : writing[i].kind = "stats"}

\* C27 as stated: at most one write to stats.json is in progress at any time,
\* and every write to stats.json, a debounced save or the rewrite of
\* resetStats, was started by the write queue
C27_OneStatsWrite ==
    /\ Cardinality(StatsWrites) <= 1
    /\ \A i \in StatsWrites : writing[i].via = "queue"

\* the first half of C27 alone: never two writes to stats.json in progress
C27_Overlap == Cardinality(StatsWrites) <= 1

\* the journal line of every call logged, in call order
Lines == [i \in 1..Len(history) |-> Line(history[i])]

\* the appends in progress, and the appends waiting in the write queue
Appending == SelectSeq(writing, LAMBDA w : w.kind = "append")

Waiting == SelectSeq(writeQueue, LAMBDA t : t.kind = "append")

Drained == Appending = <<>> /\ Waiting = <<>>

\* C28 as stated: at most one append is in progress, and once the queue has
\* drained every logged call has exactly one line in the journal, in call order
C28_Journal ==
    /\ Len(Appending) <= 1
    /\ Drained => journal = Lines

\* C28 amended: appends run one at a time in log() order, append N settling
\* before append N+1 starts; the journal holds, in call order and once each,
\* the lines of the calls whose append has settled without failing
C28_JournalOfSucceeded ==
    LET settled == Len(journal) + Cardinality(lost)
        kept == SelectSeq(Lines, LAMBDA l : l \notin lost) IN
    /\ Len(Appending) <= 1
    /\ settled + Len(Appending) + Len(Waiting) = Len(Lines)
    /\ \A i \in 1..Len(Appending) : Appending[i].line = Lines[settled + i]
    /\ \A i \in 1..Len(Waiting) : Waiting[i].line = Lines[settled + Len(Appending) + i]
    /\ journal = SubSeq(kept, 1, Len(journal))
    /\ Drained => journal = kept

C28_Witness ==
    /\ Drained
    /\ logCalls >= 2
    /\ Len(journal) >= 1
    /\ lost # {}
    /\ journal[1] = Lines[2]

(***************************************************************************)
(* Properties of the proxy client                                          *)
(***************************************************************************)
\* what a disconnect() may change: the public state of the client and the
\* child client/transport pairs
ProxyState == <<mcp.connected, mcp.tools, mcp.lastError, children>>

\* C29 as stated: a disconnect() begun on a connected client ends with the child
\* client and transport closed, the tool list empty, connected false and no
\* tools exported; a disconnect() begun on a client that is not connected
\* changes nothing
C29_Disconnect ==
    [][(disconnect \/ disconnectClientClosed \/ disconnectTransportClosed) =>
         /\ (disc'.wasConnected /\ disc'.pc = "idle") =>
               /\ ~mcp'.connected
               /\ mcp'.tools = <<>>
               /\ getExports' = <<>>
               /\ mcp'.client = 0 /\ mcp'.transport = 0
               /\ mcp.transport # 0 => children'[mcp.transport] # "open"
         /\ ~disc'.wasConnected => ProxyState' = ProxyState]_vars

\* C30 as stated: when the child of a connected proxy exits, the proxy becomes
\* disconnected with lastError set and exports no tools
C30_ChildExit ==
    [][\A id \in 1..Len(children) :
         (childExits(id) /\ mcp.connected /\ mcp.client = id) =>
             /\ ~mcp'.connected
             /\ mcp'.lastError # NoError
             /\ getExports' = <<>>]_vars

\* C31 as stated: a configuration with both a command and a url, or with
\* neither, never results in a connection
C31_ExactlyOne ==
    (mcp.connected \/ children # <<>>) => (config.command # config.url)

\* C39 as stated: with no connect() or disconnect() in progress, every child
\* client/transport pair created by connect() is closed, except the one of
\* the current connection when the client reports connected
C39_NoChildLeftOpen ==
    (conn.pc = "idle" /\ disc.pc = "idle") =>
        \A id \in 1..Len(children) :
            children[id] = "open" => (mcp.connected /\ mcp.transport = id)

(***************************************************************************)
(* Properties of the stdio server                                          *)
(***************************************************************************)
\* C32 as stated: everything the process writes to standard output while it
\* serves MCP over stdio is an MCP frame: here, the result of a tools/call
C32_StdoutCarriesFramesOnly ==
    \A i \in 1..Len(out) :
        out[i].fd = "stdout" =>
            \E id \in DOMAIN calls : calls[id].st = "done" /\ out[i] = Frame(calls[id].resp)

(***************************************************************************)
(* Properties of the shutdown                                              *)
(***************************************************************************)
\* C36 as stated: the shutdown stops the SSE listener before it destroys a
\* plugin, and the process exits only when the logger's write queue has
\* drained: no save pending, no write waiting or in progress
C36_ShutdownOrder ==
    /\ teardown.called # <<>> => ~listening
    /\ proc.pc = "exited" =>
          (~saveStatsTimeout /\ writeQueue = <<>> /\ writing = <<>>)

\* C40 as stated: once destroyAll() has settled, destroy() has been called
\* on every plugin that was loaded when it began
C40_EveryPluginDestroyed ==
    teardown.pc \in {"done", "rejected"} =>
        Range(teardown.called) = Range(teardown.names)

(***************************************************************************)
(* Properties of overlapping loads                                         *)
(***************************************************************************)
\* C37 as stated: of two overlapping loadPlugin calls for one name at most one
\* succeeds: a call resolves, stores its instance and emits pluginLoaded only
\* while no instance is registered under the name
C37_OneLoadWins ==
    [][\A id \in 1..MaxLoads :
         (loads[id].st = "init" /\ loads'[id].result = Resolved)
             => ~MapHas(plugins, loads[id].name)]_vars

(***************************************************************************)
(* Properties of the logger's persistence                                  *)
(***************************************************************************)
\* the stats saves chained on the write queue and not yet started
SavesQueued == Len(SelectSeq(writeQueue, LAMBDA t : t.kind = "stats"))

\* C33 as stated: every update arms the debounce timer and queues no save by
\* itself; the timer queues exactly one save and is not armed again until the
\* next update; the save writes the stats with every update made since they
\* were empty, the last one of the burst included
C33_Debounce ==
    [][/\ logCalls' = logCalls + 1 =>
            saveStatsTimeout' /\ SavesQueued' = SavesQueued
       /\ saveStatsTimer => (SavesQueued' = SavesQueued + 1 /\ ~saveStatsTimeout')
       /\ (writeQueueRuns /\ Head(writeQueue).kind = "stats") =>
            writing'[Len(writing')].totals.calls = counted]_vars

\* C35 as stated: the call totals in stats.json never decrease from one write
\* to the next, except by a write that follows a resetStats()
C35_TotalsAdvance ==
    [][statsFile'.calls < statsFile.calls => resets > 0]_vars

\* C34 as stated: a failing mkdir, journal append or stats.json write never
\* makes log() throw and never stops the write queue, and leaves history and
\* stats as the successful step would: a settled write changes neither, and
\* the end of the initialisation leaves the stats loadStats() yields
C34_FailuresLeaveMemory ==
    /\ [](~logThrew)
    /\ [][/\ \A i \in 1..Len(writing) :
                writeSettled(i, FALSE) =>
                    /\ history' = history /\ stats' = stats
                    /\ writeQueue' = writeQueue
                    /\ Len(writing') = Len(writing) - 1
          /\ initMkdir(FALSE) => (history' = history /\ stats' = loadStats)]_vars

(***************************************************************************)
(* Properties of the command registry                                      *)
(***************************************************************************)
\* the plugins whose registration of verb v was taken and not unregistered
Claimants(v) == {p \in RegPlugins : <<p, v>> \in claimed}

\* the orders in which the members of a set can be listed
Orders(S) == {s \in [1..Cardinality(S) -> S] : \A i, j \in DOMAIN s : s[i] = s[j] => i = j}

\* v is the name or an alias of a registered built-in
BuiltinVerb(v) == v \in registered \/ MapHas(aliases, v)

\* names given to get()
LookupNames == {"help", "HELP", "h", "H", "stop", "STOP"}

\* C5 as stated: when two or more plugins registered verb v, the input
\* "v p a1..an" with p one of them invokes p's handler, and only it, with
\* <<a1..an>>; a non-empty output is prefixed with "[p] "
C5_RouterRoutes ==
    LET v == toLowerCase(last.input[1]) IN
    (/\ last.op = "execute"
     /\ Len(last.input) >= 2
     /\ ~BuiltinVerb(v)
     /\ Cardinality(Claimants(v)) >= 2
     /\ last.input[2] \in Claimants(v)) =>
        /\ last.invoked = <<[owner |-> last.input[2], name |-> v,
                             args |-> SubSeq(last.input, 3, Len(last.input))]>>
        /\ (~last.raw.threw /\ last.raw.output # "") =>
              last.result.output = "[" \o last.input[2] \o "] " \o last.raw.output

\* C6 as stated: when two or more plugins registered verb v, the input "v"
\* without a selector, or with a selector that is not one of them, fails with
\* a message listing exactly those plugins, and invokes no handler
C6_RouterRefuses ==
    LET v == toLowerCase(last.input[1])
        listed(order) == Join(order, ", ") IN
    (/\ last.op = "execute"
     /\ ~BuiltinVerb(v)
     /\ Cardinality(Claimants(v)) >= 2
     /\ (Len(last.input) = 1 \/ last.input[2] \notin Claimants(v))) =>
        /\ last.invoked = <<>>
        /\ ~last.result.success
        /\ \E order \in Orders(Claimants(v)) :
              \/ last.result.output = "Usage: " \o v \o " <plugin> [args]\nAvailable plugins: "
                                      \o listed(order)
              \/ /\ Len(last.input) >= 2
                 /\ last.result.output = "Plugin '" \o last.input[2] \o "' not found for command '"
                                         \o v \o "'\nAvailable: " \o listed(order)

\* C7 as stated: after unregisterPlugin(p), a verb v that p had registered is
\* a router over the remaining claimants when two or more remain, is bound
\* directly to the one that remains, and no longer resolves when none remains
C7_UnregisterReverts ==
    last.op = "unregisterPlugin" =>
       \A v \in last.verbs :
          ~BuiltinVerb(v) =>
             LET rem == Claimants(v)
                 invokes(parts, q, args) ==
                     \A o \in CmdOutcomes :
                        Exec(commands, aliases, collisions, parts, o).invoked
                           = <<[owner |-> q, name |-> v, args |-> args]>>
             IN
             /\ rem = {} => ~get(commands, aliases, v).found
             /\ \A q \in rem : Cardinality(rem) = 1 => invokes(<<v, "x">>, q, <<"x">>)
             /\ \A q \in rem : Cardinality(rem) >= 2 => invokes(<<v, q, "x">>, q, <<"x">>)

\* C8 as stated: once the built-in named v is registered, v resolves to that
\* built-in whatever registerPluginCommand and unregisterPlugin calls follow
C8_BuiltinNeverShadowed ==
    \A b \in Builtins :
       b.name \in registered =>
          get(commands, aliases, b.name) = [found |-> TRUE, command |-> b]

\* C9 as stated: resolution ignores case, and a registered built-in is what
\* its name and each of its aliases resolve to, plugin commands or not
C9_BuiltinsFirst ==
    \A b \in Builtins :
       b.name \in registered =>
          \A n \in LookupNames :
             (toLowerCase(n) = b.name \/ toLowerCase(n) \in Range(b.aliases)) =>
                get(commands, aliases, n) = [found |-> TRUE, command |-> b]

\* the command registry alone, from construction
SpecReg == Init /\ [][NextReg]_vars

====
